---- MODULE Spec2Model ----
(***************************************************************************)
(* A model of go_query_api: the field catalog, the table relationship      *)
(* graph, the field matcher, the intent classifier, the join planner and   *)
(* the SQL assembler, and the server around them: the configuration, the   *)
(* loading of the catalog, the routes and the handlers.                    *)
(*                                                                         *)
(* A Go string is a sequence of one-character strings, so that substring   *)
(* tests, lower-casing, splitting and formatting are computed and not      *)
(* assumed.  A Go map is a function; ranging over a map visits its keys in *)
(* an order the runtime chooses, so every such loop is modelled by all the *)
(* orders it can take.  A float64 score is the exact rational it rounds.   *)
(***************************************************************************)
EXTENDS Integers, Sequences, FiniteSets, TLC

VARIABLES fields, relationshipGraph, last, cfg, phase, routes, inflight

vars == <<fields, relationshipGraph, last, cfg, phase, routes, inflight>>

\* the configuration, the position of main, the registered routes and the
\* requests being handled
process == <<cfg, phase, routes, inflight>>

(***************************************************************************)
(* Bounds of the model.                                                    *)
(***************************************************************************)
\* the longest sequence of foreign-key declarations in a generated catalog
MaxDecls == 4

(***************************************************************************)
(* Strings.                                                                *)
(***************************************************************************)
UpperCase == <<"A", "B", "C", "D", "E", "F", "G", "H", "I", "J", "K", "L", "M", "N", "O", "P", "Q", "R", "S", "T", "U", "V", "W", "X", "Y", "Z">>
LowerCase == <<"a", "b", "c", "d", "e", "f", "g", "h", "i", "j", "k", "l", "m", "n", "o", "p", "q", "r", "s", "t", "u", "v", "w", "x", "y", "z">>
Digits == <<"0", "1", "2", "3", "4", "5", "6", "7", "8", "9">>

Range(s) == {s[i] : i \in DOMAIN s}

\* the lower-case letter of every upper-case letter
LowerOf ==
    [c \in Range(UpperCase) |-> LowerCase[CHOOSE i \in DOMAIN UpperCase : UpperCase[i] = c]]

\* strings.ToLower, one character
ToLowerChar(c) == IF c \in DOMAIN LowerOf THEN LowerOf[c] ELSE c

\* strings.ToLower
ToLower(s) == [i \in 1..Len(s) |-> ToLowerChar(s[i])]

\* strings.Contains
Contains(s, substr) ==
    \E i \in 0..(Len(s) - Len(substr)) : \A j \in 1..Len(substr) : s[i + j] = substr[j]

\* strings.Join
RECURSIVE Join(_, _)
Join(elems, sep) ==
    IF elems = <<>> THEN <<>>
    ELSE IF Len(elems) = 1 THEN elems[1]
    ELSE elems[1] \o sep \o Join(Tail(elems), sep)

\* the sequences that list every element of the set S once: the orders in
\* which a range over a Go map with key set S can visit it
Orders(S) ==
    {s \in [1..Cardinality(S) -> S] : \A i, j \in DOMAIN s : s[i] = s[j] => i = j}

(***************************************************************************)
(* models.Field, models.Join and the error values.                         *)
(***************************************************************************)
Field(col, table, sysA, sysB, desc, type, joinKey, fTable, fKey) ==
    [ColumnName |-> col, TableName |-> table, SystemAFieldMap |-> sysA,
     SystemBFieldMap |-> sysB, Description |-> desc, FieldType |-> type,
     JoinKey |-> joinKey, ForeignTable |-> fTable, ForeignKey |-> fKey]

JoinEdge(from, to, cond) == [From |-> from, To |-> to, Condition |-> cond]

\* a nil error, and fmt.Errorf(msg)
NoError == <<>>
Errorf(msg) == <<msg>>

(***************************************************************************)
(* The catalogs.                                                           *)
(***************************************************************************)
users == <<"u", "s", "e", "r", "s">>
orders == <<"o", "r", "d", "e", "r", "s">>
order_items == <<"o", "r", "d", "e", "r", "_", "i", "t", "e", "m", "s">>
products == <<"p", "r", "o", "d", "u", "c", "t", "s">>
payments == <<"p", "a", "y", "m", "e", "n", "t", "s">>

\* the sample field mapping of the README
ReadmeCatalog == <<
    Field(<<"u", "s", "e", "r", "_", "i", "d">>, users, <<"u", "i", "d">>, <<"u", "s", "e", "r", "_", "i", "d", "e", "n", "t", "i", "f", "i", "e", "r">>,
          <<"U", "n", "i", "q", "u", "e", " ", "i", "d", "e", "n", "t", "i", "f", "i", "e", "r", " ", "f", "o", "r", " ", "u", "s", "e", "r">>, <<"I", "N", "T", "E", "G", "E", "R">>, <<>>, <<>>, <<>>),
    Field(<<"e", "m", "a", "i", "l">>, users, <<"e", "m", "a", "i", "l", "_", "a", "d", "d", "r">>, <<"u", "s", "e", "r", "_", "e", "m", "a", "i", "l">>,
          <<"U", "s", "e", "r", " ", "e", "m", "a", "i", "l", " ", "a", "d", "d", "r", "e", "s", "s">>, <<"V", "A", "R", "C", "H", "A", "R">>, <<>>, <<>>, <<>>),
    Field(<<"o", "r", "d", "e", "r", "_", "i", "d">>, orders, <<"o", "r", "d", "e", "r", "_", "n", "u", "m">>, <<"t", "r", "a", "n", "s", "a", "c", "t", "i", "o", "n", "_", "i", "d">>,
          <<"U", "n", "i", "q", "u", "e", " ", "o", "r", "d", "e", "r", " ", "i", "d", "e", "n", "t", "i", "f", "i", "e", "r">>, <<"I", "N", "T", "E", "G", "E", "R">>, <<>>, <<>>, <<>>),
    Field(<<"u", "s", "e", "r", "_", "i", "d">>, orders, <<"c", "u", "s", "t", "o", "m", "e", "r", "_", "i", "d">>, <<"u", "s", "e", "r", "_", "r", "e", "f">>,
          <<"U", "s", "e", "r", " ", "w", "h", "o", " ", "p", "l", "a", "c", "e", "d", " ", "o", "r", "d", "e", "r">>, <<"I", "N", "T", "E", "G", "E", "R">>, <<"u", "s", "e", "r", "_", "i", "d">>, users, <<"u", "s", "e", "r", "_", "i", "d">>),
    Field(<<"t", "o", "t", "a", "l", "_", "a", "m", "o", "u", "n", "t">>, orders, <<"o", "r", "d", "e", "r", "_", "t", "o", "t", "a", "l">>, <<"a", "m", "o", "u", "n", "t">>,
          <<"T", "o", "t", "a", "l", " ", "o", "r", "d", "e", "r", " ", "v", "a", "l", "u", "e", " ", "i", "n", " ", "c", "e", "n", "t", "s">>, <<"I", "N", "T", "E", "G", "E", "R">>, <<>>, <<>>, <<>>),
    Field(<<"p", "r", "o", "d", "u", "c", "t", "_", "n", "a", "m", "e">>, products, <<"n", "a", "m", "e">>, <<"p", "r", "o", "d", "u", "c", "t", "_", "t", "i", "t", "l", "e">>,
          <<"P", "r", "o", "d", "u", "c", "t", " ", "d", "i", "s", "p", "l", "a", "y", " ", "n", "a", "m", "e">>, <<"V", "A", "R", "C", "H", "A", "R">>, <<>>, <<>>, <<>>),
    Field(<<"o", "r", "d", "e", "r", "_", "i", "t", "e", "m", "_", "i", "d">>, order_items, <<"i", "t", "e", "m", "_", "i", "d">>, <<"l", "i", "n", "e", "_", "i", "t", "e", "m", "_", "i", "d">>,
          <<"O", "r", "d", "e", "r", " ", "l", "i", "n", "e", " ", "i", "t", "e", "m", " ", "i", "d", "e", "n", "t", "i", "f", "i", "e", "r">>, <<"I", "N", "T", "E", "G", "E", "R">>, <<>>, <<>>, <<>>),
    Field(<<"o", "r", "d", "e", "r", "_", "i", "d">>, order_items, <<"o", "r", "d", "e", "r", "_", "r", "e", "f">>, <<"o", "r", "d", "e", "r", "_", "r", "e", "f", "e", "r", "e", "n", "c", "e">>,
          <<"R", "e", "f", "e", "r", "e", "n", "c", "e", " ", "t", "o", " ", "p", "a", "r", "e", "n", "t", " ", "o", "r", "d", "e", "r">>, <<"I", "N", "T", "E", "G", "E", "R">>, <<"o", "r", "d", "e", "r", "_", "i", "d">>, orders, <<"o", "r", "d", "e", "r", "_", "i", "d">>),
    Field(<<"p", "r", "o", "d", "u", "c", "t", "_", "i", "d">>, order_items, <<"p", "r", "o", "d", "_", "i", "d">>, <<"p", "r", "o", "d", "u", "c", "t", "_", "r", "e", "f", "e", "r", "e", "n", "c", "e">>,
          <<"R", "e", "f", "e", "r", "e", "n", "c", "e", " ", "t", "o", " ", "p", "r", "o", "d", "u", "c", "t">>, <<"I", "N", "T", "E", "G", "E", "R">>, <<"p", "r", "o", "d", "u", "c", "t", "_", "i", "d">>, products, <<"p", "r", "o", "d", "u", "c", "t", "_", "i", "d">>) >>

\* foreign-key declarations: the three of the README, one that closes the
\* cycle users - orders - order_items - products, one that relates users and
\* orders a second time with the owner and the foreign table exchanged, one
\* that makes order_items a neighbour of users, and one that names a foreign
\* table but no foreign key
DeclPool == <<
    ReadmeCatalog[4],
    ReadmeCatalog[8],
    ReadmeCatalog[9],
    Field(<<"o", "w", "n", "e", "r", "_", "i", "d">>, products, <<"o", "w", "n", "e", "r">>, <<>>,
          <<"O", "w", "n", "e", "r", " ", "r", "e", "f", "e", "r", "e", "n", "c", "e">>, <<"I", "N", "T", "E", "G", "E", "R">>, <<"o", "w", "n", "e", "r", "_", "i", "d">>, users, <<"u", "s", "e", "r", "_", "i", "d">>),
    Field(<<"l", "a", "s", "t", "_", "o", "r", "d", "e", "r">>, users, <<>>, <<"l", "a", "s", "t", "_", "o", "r", "d", "e", "r", "_", "r", "e", "f">>,
          <<"L", "a", "t", "e", "s", "t", " ", "p", "u", "r", "c", "h", "a", "s", "e">>, <<"I", "N", "T", "E", "G", "E", "R">>, <<"l", "a", "s", "t", "_", "o", "r", "d", "e", "r">>, orders, <<"o", "r", "d", "e", "r", "_", "i", "d">>),
    Field(<<"b", "u", "y", "e", "r", "_", "i", "d">>, order_items, <<"b", "u", "y", "e", "r">>, <<"b", "u", "y", "e", "r", "_", "r", "e", "f">>,
          <<"B", "u", "y", "e", "r", " ", "r", "e", "f", "e", "r", "e", "n", "c", "e">>, <<"I", "N", "T", "E", "G", "E", "R">>, <<"b", "u", "y", "e", "r", "_", "i", "d">>, users, <<"u", "s", "e", "r", "_", "i", "d">>),
    Field(<<"p", "a", "y", "m", "e", "n", "t", "_", "r", "e", "f">>, orders, <<>>, <<>>,
          <<"P", "a", "y", "m", "e", "n", "t", " ", "r", "e", "f", "e", "r", "e", "n", "c", "e">>, <<"I", "N", "T", "E", "G", "E", "R">>, <<"p", "a", "y", "m", "e", "n", "t", "_", "r", "e", "f">>, payments, <<>>) >>

\* the sequences of at most n declarations of the pool, none taken twice
DeclSeqs(n) ==
    UNION {{[i \in 1..k |-> DeclPool[s[i]]] :
               s \in {t \in [1..k -> DOMAIN DeclPool] :
                         \A i, j \in 1..k : t[i] = t[j] => i = j}} : k \in 0..n}

GraphCatalogs == DeclSeqs(MaxDecls)

TableNames == {users, orders, order_items, products, payments}

(***************************************************************************)
(* FieldService.buildRelationshipGraph                                     *)
(***************************************************************************)
EmptyMap == [k \in {} |-> k]

\* m[k] = v on a Go map
MapPut(m, k, v) == [x \in (DOMAIN m) \cup {k} |-> IF x = k THEN v ELSE m[x]]

\* fmt.Sprintf("%s.%s = %s.%s", table, column, foreignTable, foreignKey)
joinConditionForeignFirst(field) ==
    field.ForeignTable \o <<".">> \o field.ForeignKey \o <<" ", "=", " ">>
        \o field.TableName \o <<".">> \o field.ColumnName

joinCondition(field) ==
    field.TableName \o <<".">> \o field.ColumnName \o <<" ", "=", " ">>
        \o field.ForeignTable \o <<".">> \o field.ForeignKey

\* the fields without join relationships, which the loop skips
skipField(field) == field.ForeignTable = <<>> \/ field.ForeignKey = <<>>

\* one iteration of the loop of buildRelationshipGraph
addRelationshipOneWay(graph, field) ==
    IF skipField(field) THEN graph
    ELSE LET g1 == IF field.TableName \in DOMAIN graph THEN graph
                   ELSE MapPut(graph, field.TableName, EmptyMap)
             g2 == IF field.ForeignTable \in DOMAIN g1 THEN g1
                   ELSE MapPut(g1, field.ForeignTable, EmptyMap)
         IN  MapPut(g2, field.TableName,
                 MapPut(g2[field.TableName], field.ForeignTable,
                     JoinEdge(field.TableName, field.ForeignTable,
                              joinCondition(field))))

addRelationship(graph, field) ==
    IF skipField(field) THEN graph
    ELSE LET g1 == IF field.TableName \in DOMAIN graph THEN graph
                   ELSE MapPut(graph, field.TableName, EmptyMap)
             g2 == IF field.ForeignTable \in DOMAIN g1 THEN g1
                   ELSE MapPut(g1, field.ForeignTable, EmptyMap)
             g3 == MapPut(g2, field.TableName,
                       MapPut(g2[field.TableName], field.ForeignTable,
                           JoinEdge(field.TableName, field.ForeignTable,
                                    joinCondition(field))))
         IN  MapPut(g3, field.ForeignTable,
                 MapPut(g3[field.ForeignTable], field.TableName,
                     JoinEdge(field.ForeignTable, field.TableName,
                              joinCondition(field))))

RECURSIVE buildFromLastToFirst(_, _)
buildFromLastToFirst(graph, fs) ==
    IF fs = <<>> THEN graph
    ELSE addRelationship(buildFromLastToFirst(graph, Tail(fs)), Head(fs))

RECURSIVE buildFrom(_, _)
buildFrom(graph, fs) ==
    IF fs = <<>> THEN graph ELSE buildFrom(addRelationship(graph, Head(fs)), Tail(fs))

buildRelationshipGraph(fs) == buildFrom(EmptyMap, fs)

(***************************************************************************)
(* FieldService.FindJoinPath and FieldService.bfsShortestPath              *)
(***************************************************************************)
\* the neighbours of a table: the keys of its map (none for a missing key)
neighbors(graph, table) ==
    IF table \in DOMAIN graph THEN DOMAIN graph[table] ELSE {}

\* queue = append(queue, neighbor), for the neighbours in visiting order
enqueue(queue, found) == queue \o found

\* the path rebuilt from the parents, from end back to start
RECURSIVE reconstruct(_, _, _, _)
reconstruct(parents, start, node, path) ==
    IF node = start THEN path
    ELSE reconstruct(parents, start, parents[node], <<parents[node]>> \o path)

\* fmt.Errorf("no join path found between %s and %s", start, end)
noPathError(start, end) ==
    Errorf(<<"n", "o", " ", "j", "o", "i", "n", " ", "p", "a", "t", "h", " ", "f", "o", "u", "n", "d", " ", "b", "e", "t", "w", "e", "e", "n", " ">> \o start \o <<" ", "a", "n", "d", " ">> \o end)

\* the loop of bfsShortestPath: every outcome it has over the orders in which
\* the neighbours of the dequeued table are visited
RECURSIVE bfsLoop(_, _, _, _, _, _)
bfsLoop(graph, start, end, queue, visited, parents) ==
    IF queue = <<>> THEN {[path |-> <<>>, err |-> noPathError(start, end)]}
    ELSE LET current == Head(queue)
             fresh == neighbors(graph, current) \ visited
         IN  IF current = end
             THEN {[path |-> reconstruct(parents, start, end, <<end>>), err |-> NoError]}
             ELSE UNION {bfsLoop(graph, start, end, enqueue(Tail(queue), found),
                                 visited \cup fresh,
                                 [n \in (DOMAIN parents) \cup fresh |->
                                     IF n \in fresh THEN current ELSE parents[n]])
                         : found \in Orders(fresh)}

bfsShortestPath(graph, start, end) ==
    bfsLoop(graph, start, end, <<start>>, {start}, EmptyMap)

\* fmt.Errorf("table %s not found in relationship graph", table)
notFoundError(table) ==
    Errorf(<<"t", "a", "b", "l", "e", " ">> \o table \o <<" ", "n", "o", "t", " ", "f", "o", "u", "n", "d", " ", "i", "n", " ", "r", "e", "l", "a", "t", "i", "o", "n", "s", "h", "i", "p", " ", "g", "r", "a", "p", "h">>)

\* the conversion of a path to joins
pathJoinsBackwards(graph, path) ==
    [i \in 1..(Len(path) - 1) |-> graph[path[i + 1]][path[i]]]

pathJoins(graph, path) ==
    [i \in 1..(Len(path) - 1) |-> graph[path[i]][path[i + 1]]]

\* the first of the two existence checks that fails
missingTableToFirst(graph, fromTable, toTable) ==
    IF toTable \notin DOMAIN graph THEN <<toTable>>
    ELSE IF fromTable \notin DOMAIN graph THEN <<fromTable>>
    ELSE <<>>

missingTable(graph, fromTable, toTable) ==
    IF fromTable \notin DOMAIN graph THEN <<fromTable>>
    ELSE IF toTable \notin DOMAIN graph THEN <<toTable>>
    ELSE <<>>

\* every result FindJoinPath can return: joins and an error (<<>> is nil)
FindJoinPath(graph, fromTable, toTable) ==
    IF fromTable = toTable THEN {[joins |-> <<>>, err |-> NoError]}
    ELSE IF missingTable(graph, fromTable, toTable) # <<>>
    THEN {[joins |-> <<>>, err |-> notFoundError(missingTable(graph, fromTable, toTable)[1])]}
    ELSE {IF r.err # NoError THEN [joins |-> <<>>, err |-> r.err]
          ELSE [joins |-> pathJoins(graph, r.path), err |-> NoError]
          : r \in bfsShortestPath(graph, fromTable, toTable)}

(***************************************************************************)
(* Scores.  A float64 score is modelled by the rational it rounds, kept in *)
(* lowest terms: the code only compares scores, adds them and divides them *)
(* by small integers.                                                      *)
(***************************************************************************)
RECURSIVE GCD(_, _)
GCD(a, b) == IF b = 0 THEN a ELSE GCD(b, a % b)

Rat(n, d) == LET g == GCD(n, d) IN [num |-> n \div g, den |-> d \div g]

RatLess(a, b) == a.num * b.den < b.num * a.den
RatAdd(a, b) == Rat(a.num * b.den + b.num * a.den, a.den * b.den)
RatMul(a, b) == Rat(a.num * b.num, a.den * b.den)
\* math.Min of query_service.go
RatMin(a, b) == IF RatLess(a, b) THEN a ELSE b

(***************************************************************************)
(* config.Load: the configuration read from the environment.  A variable   *)
(* of the environment that is not set is the empty string.                 *)
(***************************************************************************)
fallbackThreshold == 30
fallbackMaxMatches == 10

\* the number a string of decimal digits denotes
RECURSIVE DecimalValue(_)
DecimalValue(s) ==
    IF s = <<>> THEN 0
    ELSE 10 * DecimalValue(SubSeq(s, 1, Len(s) - 1))
             + (CHOOSE d \in 0..9 : Digits[d + 1] = s[Len(s)])

IsDigits(s) == s # <<>> /\ \A i \in DOMAIN s : s[i] \in Range(Digits)

RECURSIVE Pow10(_)
Pow10(k) == IF k = 0 THEN 1 ELSE 10 * Pow10(k - 1)

\* strconv.ParseFloat on the numerals digits and digits.digits; every other
\* string of the environments below is not a number
ParseFloat(s) ==
    IF IsDigits(s) THEN [ok |-> TRUE, value |-> Rat(DecimalValue(s), 1)]
    ELSE IF \E k \in DOMAIN s :
                /\ s[k] = "."
                /\ IsDigits(SubSeq(s, 1, k - 1))
                /\ IsDigits(SubSeq(s, k + 1, Len(s)))
    THEN LET k == CHOOSE k \in DOMAIN s : s[k] = "."
             whole == SubSeq(s, 1, k - 1)
             fraction == SubSeq(s, k + 1, Len(s))
         IN  [ok |-> TRUE,
              value |-> Rat(DecimalValue(whole \o fraction), Pow10(Len(fraction)))]
    ELSE [ok |-> FALSE, value |-> Rat(0, 1)]

\* strconv.Atoi: an optional sign and decimal digits
Atoi(s) ==
    IF IsDigits(s) THEN [ok |-> TRUE, value |-> DecimalValue(s)]
    ELSE IF Len(s) > 1 /\ s[1] \in {"-", "+"} /\ IsDigits(Tail(s))
    THEN [ok |-> TRUE,
          value |-> IF s[1] = "-" THEN 0 - DecimalValue(Tail(s)) ELSE DecimalValue(Tail(s))]
    ELSE [ok |-> FALSE, value |-> 0]

getEnv(env, key, defaultValue) == IF env[key] = <<>> THEN defaultValue ELSE env[key]

Load(env) ==
    LET threshold == ParseFloat(getEnv(env, "MATCH_THRESHOLD", <<"3", "0", ".", "0">>))
        maxMatches == Atoi(getEnv(env, "MAX_MATCHES", <<"1", "0">>))
    IN  [Port |-> getEnv(env, "PORT", <<"8", "0", "8", "0">>),
         CSVPath |-> getEnv(env, "CSV_PATH", <<"f", "i", "e", "l", "d", "_", "m", "a", "p", "p", "i", "n", "g", "s", ".", "c", "s", "v">>),
         MatchThreshold |-> IF threshold.ok THEN threshold.value
                            ELSE Rat(fallbackThreshold, 1),
         MaxMatches |-> IF maxMatches.ok THEN maxMatches.value ELSE fallbackMaxMatches]

\* an environment that sets nothing, and the configuration it gives
NoEnv == [PORT |-> <<>>, CSV_PATH |-> <<>>, MATCH_THRESHOLD |-> <<>>, MAX_MATCHES |-> <<>>]

DefaultConfig == Load(NoEnv)

(***************************************************************************)
(* The routes SetupRoutes registers, and the positions of main.            *)
(***************************************************************************)
HealthRoute == <<"G", "E", "T", " ", "/", "h", "e", "a", "l", "t", "h">>
GenerateQueryRoute == <<"P", "O", "S", "T", " ", "/", "a", "p", "i", "/", "v", "1", "/", "g", "e", "n", "e", "r", "a", "t", "e", "-", "q", "u", "e", "r", "y">>
FieldsRoute == <<"G", "E", "T", " ", "/", "a", "p", "i", "/", "v", "1", "/", "f", "i", "e", "l", "d", "s">>

AllRoutes == {HealthRoute, GenerateQueryRoute, FieldsRoute}

\* the values of cfg, phase, routes and inflight once the server serves, with
\* the default configuration and no request in flight
Serving ==
    /\ cfg = DefaultConfig
    /\ phase = "serving"
    /\ routes = AllRoutes
    /\ inflight = {}

(***************************************************************************)
(* The service after NewFieldService, and the calls made on it.  last is   *)
(* the call that returned last, with its arguments and its results.        *)
(***************************************************************************)
Idle == [op |-> "idle"]

\* the caller takes the result; the service is ready for the next call
Return ==
    /\ last # Idle
    /\ last' = Idle
    /\ UNCHANGED <<fields, relationshipGraph, process>>

FindJoinPathCall(fromTable, toTable) ==
    /\ last = Idle
    /\ \E r \in FindJoinPath(relationshipGraph, fromTable, toTable) :
           last' = [op |-> "FindJoinPath", fromTable |-> fromTable,
                    toTable |-> toTable, joins |-> r.joins, err |-> r.err]
    /\ UNCHANGED <<fields, relationshipGraph, process>>

\* NewFieldService over a catalog of foreign-key declarations
InitGraph ==
    /\ fields \in GraphCatalogs
    /\ relationshipGraph = buildRelationshipGraph(fields)
    /\ last = Idle
    /\ Serving

NextGraph ==
    \/ \E fromTable, toTable \in TableNames : FindJoinPathCall(fromTable, toTable)
    \/ Return

SpecGraph == InitGraph /\ [][NextGraph]_vars

(***************************************************************************)
(* The relationships the catalog declares, read off the catalog itself.    *)
(***************************************************************************)
\* the declarations of the catalog that carry a foreign table and key
Declares(i) ==
    /\ fields[i].ForeignTable # <<>>
    /\ fields[i].ForeignKey # <<>>

Relates(i, a, b) ==
    /\ Declares(i)
    /\ \/ fields[i].TableName = a /\ fields[i].ForeignTable = b
       \/ fields[i].TableName = b /\ fields[i].ForeignTable = a

Adjacent(a, b) == \E i \in DOMAIN fields : Relates(i, a, b)

\* the tables that are nodes of the graph
Present(t) == \E i \in DOMAIN fields :
    Declares(i) /\ (fields[i].TableName = t \/ fields[i].ForeignTable = t)

\* the tables within k edges of table a
RECURSIVE Within(_, _)
Within(a, k) ==
    IF k = 0 THEN {a}
    ELSE LET near == Within(a, k - 1)
         IN  near \cup {t \in TableNames : \E n \in near : Adjacent(n, t)}

Connected(a, b) == b \in Within(a, Cardinality(TableNames))

\* the least number of edges between two connected tables
Distance(a, b) ==
    CHOOSE k \in 0..Cardinality(TableNames) :
        b \in Within(a, k) /\ \A j \in 0..(k - 1) : b \notin Within(a, j)

\* joins lead from table a to table b, each edge starting where the last ended
IsChain(joins, a, b) ==
    /\ joins # <<>>
    /\ joins[1].From = a
    /\ joins[Len(joins)].To = b
    /\ \A i \in 1..(Len(joins) - 1) : joins[i].To = joins[i + 1].From

(***************************************************************************)
(* C1: between two connected tables of the graph FindJoinPath returns,     *)
(* without error, a chain of edges from fromTable to toTable whose length  *)
(* is the least number of edges between them; for fromTable = toTable it   *)
(* returns no edge and no error.                                           *)
(***************************************************************************)
C1_ShortestChain ==
    last.op = "FindJoinPath" =>
        /\ last.fromTable = last.toTable =>
               last.joins = <<>> /\ last.err = NoError
        /\ ( /\ last.fromTable # last.toTable
             /\ Present(last.fromTable) /\ Present(last.toTable)
             /\ Connected(last.fromTable, last.toTable) ) =>
               /\ last.err = NoError
               /\ IsChain(last.joins, last.fromTable, last.toTable)
               /\ Len(last.joins) = Distance(last.fromTable, last.toTable)

\* users to products in two edges over order_items, where the way over
\* orders takes three
C1_Witness ==
    /\ last.op = "FindJoinPath"
    /\ last.fromTable = users /\ last.toTable = products
    /\ Adjacent(users, orders) /\ Adjacent(orders, order_items)
    /\ Adjacent(order_items, products) /\ Adjacent(users, order_items)
    /\ ~Adjacent(users, products)
    /\ last.err = NoError
    /\ Len(last.joins) = 2

(***************************************************************************)
(* C2: for fromTable # toTable, FindJoinPath returns an error and no edge  *)
(* exactly when a table is no node of the graph or no path connects the    *)
(* two: a missing table is named by the error, fromTable before toTable,   *)
(* and two disconnected tables are both named; otherwise it returns a path *)
(* and no error.                                                           *)
(***************************************************************************)
Names(err, table) == err # NoError /\ Contains(err[1], table)

C2_ErrorCases ==
    (last.op = "FindJoinPath" /\ last.fromTable # last.toTable) =>
        LET from == last.fromTable
            to == last.toTable
            failing == ~Present(from) \/ ~Present(to) \/ ~Connected(from, to)
        IN  /\ (last.err # NoError) <=> failing
            /\ last.err # NoError => last.joins = <<>>
            /\ last.err = NoError => last.joins # <<>>
            /\ ~Present(from) =>
                   /\ Names(last.err, from) /\ ~Names(last.err, to)
                   /\ Contains(last.err[1], <<"n", "o", "t", " ", "f", "o", "u", "n", "d">>)
            /\ (Present(from) /\ ~Present(to)) =>
                   /\ Names(last.err, to) /\ ~Names(last.err, from)
                   /\ Contains(last.err[1], <<"n", "o", "t", " ", "f", "o", "u", "n", "d">>)
            /\ (Present(from) /\ Present(to) /\ ~Connected(from, to)) =>
                   /\ Names(last.err, from) /\ Names(last.err, to)
                   /\ Contains(last.err[1], <<"n", "o", " ", "j", "o", "i", "n", " ", "p", "a", "t", "h">>)

\* neither table is a node of the graph: the error names fromTable
C2_Witness ==
    /\ last.op = "FindJoinPath"
    /\ last.fromTable # last.toTable
    /\ ~Present(last.fromTable) /\ ~Present(last.toTable)
    /\ Names(last.err, last.fromTable)
    /\ \E t \in TableNames : Present(t)

(***************************************************************************)
(* C3: when exactly one declaration (table T, column c, foreign table F,   *)
(* foreign key k) relates the tables T and F, FindJoinPath from T to F and *)
(* from F to T returns exactly one edge, with the condition "T.c = F.k".   *)
(***************************************************************************)
OnlyDeclaration(i) ==
    /\ Declares(i)
    /\ fields[i].TableName # fields[i].ForeignTable
    /\ \A j \in DOMAIN fields :
           Relates(j, fields[i].TableName, fields[i].ForeignTable) => j = i

C3_RoundTrip ==
    last.op = "FindJoinPath" =>
        \A i \in DOMAIN fields :
            ( /\ OnlyDeclaration(i)
              /\ {last.fromTable, last.toTable}
                     = {fields[i].TableName, fields[i].ForeignTable} ) =>
                /\ last.err = NoError
                /\ Len(last.joins) = 1
                /\ last.joins[1].Condition =
                       fields[i].TableName \o <<".">> \o fields[i].ColumnName
                           \o <<" ", "=", " ">>
                           \o fields[i].ForeignTable \o <<".">> \o fields[i].ForeignKey

\* from the foreign table back to the declaring table
C3_Witness ==
    /\ last.op = "FindJoinPath"
    /\ last.fromTable = products /\ last.toTable = order_items
    /\ \E i \in DOMAIN fields :
           OnlyDeclaration(i) /\ fields[i].TableName = order_items
               /\ fields[i].ForeignTable = products
    /\ Len(last.joins) = 1
    /\ last.joins[1].Condition = <<"o", "r", "d", "e", "r", "_", "i", "t", "e", "m", "s", ".", "p", "r", "o", "d", "u", "c", "t", "_", "i", "d", " ", "=", " ", "p", "r", "o", "d", "u", "c", "t", "s", ".", "p", "r", "o", "d", "u", "c", "t", "_", "i", "d">>

(***************************************************************************)
(* FieldService.calculateMatchScore, sortMatchesByScore, FindFieldMatches  *)
(***************************************************************************)
\* the number of keyword entries contained in the lower-cased description
matchedCountDistinct(description, keywords) ==
    LET desc == ToLower(description)
    IN  Cardinality({keywords[i] : i \in {j \in DOMAIN keywords :
                                              Contains(desc, ToLower(keywords[j]))}})

matchedCount(description, keywords) ==
    LET desc == ToLower(description)
    IN  Cardinality({i \in DOMAIN keywords : Contains(desc, ToLower(keywords[i]))})

calculateMatchScore(description, keywords) ==
    IF Len(keywords) = 0 THEN Rat(0, 1)
    ELSE Rat(matchedCount(description, keywords) * 100, Len(keywords))

FieldMatch(field, score) ==
    [ColumnName |-> field.ColumnName, TableName |-> field.TableName,
     FieldDescription |-> field.Description, MatchScore |-> score]

\* matches[i], matches[j] = matches[j], matches[i]
swap(matches, i, j) ==
    [k \in DOMAIN matches |->
        IF k = i THEN matches[j] ELSE IF k = j THEN matches[i] ELSE matches[k]]

\* the test of the inner loop of sortMatchesByScore
outOfOrder(a, b) == RatLess(a.MatchScore, b.MatchScore)

RECURSIVE sortInner(_, _, _)
sortInner(matches, i, j) ==
    IF j > Len(matches) THEN matches
    ELSE sortInner(IF outOfOrder(matches[i], matches[j])
                   THEN swap(matches, i, j) ELSE matches, i, j + 1)

RECURSIVE sortOuter(_, _)
sortOuter(matches, i) ==
    IF i > Len(matches) THEN matches
    ELSE sortOuter(sortInner(matches, i, i + 1), i + 1)

sortMatchesByScore(matches) == sortOuter(matches, 1)

\* the fields the loop of FindFieldMatches skips
belowOrAtThreshold(score, threshold) == ~RatLess(threshold, score)

belowThreshold(score, threshold) == RatLess(score, threshold)

RECURSIVE scoreFields(_, _, _)
scoreFields(fs, keywords, threshold) ==
    IF fs = <<>> THEN <<>>
    ELSE LET score == calculateMatchScore(Head(fs).Description, keywords)
         IN  (IF belowThreshold(score, threshold) THEN <<>>
              ELSE <<FieldMatch(Head(fs), score)>>)
                 \o scoreFields(Tail(fs), keywords, threshold)

\* matches[:maxMatches] when len(matches) > maxMatches
limitMatches(matches, maxMatches) ==
    IF Len(matches) > maxMatches THEN SubSeq(matches, 1, maxMatches) ELSE matches

\* FindFieldMatches: the matches, or a panic of the slice expression
\* matches[:maxMatches] for a negative maxMatches
FindFieldMatches(fs, keywords, threshold, maxMatches) ==
    LET sorted == sortMatchesByScore(scoreFields(fs, keywords, threshold))
    IN  IF Len(sorted) > maxMatches /\ maxMatches < 0
        THEN [matches |-> <<>>, panicked |-> TRUE]
        ELSE [matches |-> limitMatches(sorted, maxMatches), panicked |-> FALSE]

(***************************************************************************)
(* QueryService.extractKeywords                                            *)
(***************************************************************************)
\* \w and \s of the regular expression [^\w\s]
WordChars == Range(UpperCase) \cup Range(LowerCase) \cup Range(Digits) \cup {"_"}
SpaceChars == {" "}

\* re.ReplaceAllString(sanitized, " ")
sanitize(s) ==
    [i \in 1..Len(s) |-> IF s[i] \in WordChars \cup SpaceChars THEN s[i] ELSE " "]

\* strings.Fields
RECURSIVE splitFields(_, _, _)
splitFields(s, word, words) ==
    IF s = <<>> THEN (IF word = <<>> THEN words ELSE Append(words, word))
    ELSE IF Head(s) \in SpaceChars
    THEN splitFields(Tail(s), <<>>, IF word = <<>> THEN words ELSE Append(words, word))
    ELSE splitFields(Tail(s), Append(word, Head(s)), words)

Fields(s) == splitFields(s, <<>>, <<>>)

stopwords == {
    <<"a">>, <<"a", "n">>, <<"t", "h", "e">>, <<"a", "n", "d">>, <<"o", "r">>,
    <<"f", "o", "r">>, <<"i", "n">>, <<"o", "n">>, <<"a", "t">>, <<"b", "y">>, <<"t", "o">>,
    <<"w", "i", "t", "h">>, <<"a", "b", "o", "u", "t">>, <<"a", "s">>, <<"i", "n", "t", "o">>, <<"l", "i", "k", "e">>,
    <<"t", "h", "r", "o", "u", "g", "h">>, <<"a", "f", "t", "e", "r">>, <<"o", "v", "e", "r">>, <<"b", "e", "t", "w", "e", "e", "n">>, <<"o", "u", "t">>,
    <<"a", "g", "a", "i", "n", "s", "t">>, <<"d", "u", "r", "i", "n", "g">>, <<"w", "i", "t", "h", "o", "u", "t">>, <<"b", "e", "f", "o", "r", "e">>, <<"u", "n", "d", "e", "r">>,
    <<"a", "r", "o", "u", "n", "d">>, <<"a", "m", "o", "n", "g">>, <<"i", "s">>, <<"a", "r", "e">>, <<"w", "a", "s">>, <<"w", "e", "r", "e">>,
    <<"b", "e">>, <<"b", "e", "e", "n">>, <<"b", "e", "i", "n", "g">>, <<"h", "a", "v", "e">>, <<"h", "a", "s">>, <<"h", "a", "d">>,
    <<"d", "o">>, <<"d", "o", "e", "s">>, <<"d", "i", "d">>, <<"b", "u", "t">>, <<"i", "f">>, <<"o", "f">>,
    <<"f", "r", "o", "m">>, <<"g", "e", "t">>, <<"a", "l", "l">>, <<"s", "h", "o", "w">>, <<"f", "i", "n", "d">>, <<"c", "a", "n">>,
    <<"i">>, <<"m", "e">>, <<"m", "y">>, <<"m", "y", "s", "e", "l", "f">>, <<"w", "e">>, <<"o", "u", "r">>,
    <<"u", "s">>, <<"o", "u", "r", "s", "e", "l", "v", "e", "s">>, <<"y", "o", "u">>, <<"y", "o", "u", "r">>, <<"y", "o", "u", "r", "s", "e", "l", "f">>,
    <<"h", "e">>, <<"h", "i", "m">>, <<"h", "i", "s">>, <<"h", "i", "m", "s", "e", "l", "f">>, <<"s", "h", "e">>, <<"h", "e", "r">>,
    <<"h", "e", "r", "s">>, <<"h", "e", "r", "s", "e", "l", "f">>, <<"i", "t">>, <<"i", "t", "s">>, <<"i", "t", "s", "e", "l", "f">>,
    <<"t", "h", "e", "y">>, <<"t", "h", "e", "m">>, <<"t", "h", "e", "i", "r">>, <<"t", "h", "e", "i", "r", "s">>, <<"t", "h", "e", "m", "s", "e", "l", "v", "e", "s">>,
    <<"w", "h", "a", "t">>, <<"w", "h", "i", "c", "h">>, <<"w", "h", "o">>, <<"w", "h", "o", "m">>, <<"w", "h", "o", "s", "e">> }

\* the words the filter of extractKeywords keeps
isKeyword(word) == word \notin stopwords /\ Len(word) > 1

extractKeywords(description) ==
    SelectSeq(Fields(sanitize(ToLower(description))), isKeyword)

(***************************************************************************)
(* QueryService.identifyQueryType                                          *)
(***************************************************************************)
hasCountCue(desc) ==
    \/ Contains(desc, <<"c", "o", "u", "n", "t">>)
    \/ Contains(desc, <<"h", "o", "w", " ", "m", "a", "n", "y">>)
    \/ Contains(desc, <<"n", "u", "m", "b", "e", "r", " ", "o", "f">>)

hasGroupCue(desc) ==
    \/ Contains(desc, <<"g", "r", "o", "u", "p">>)
    \/ Contains(desc, <<"g", "r", "o", "u", "p", "e", "d">>)
    \/ Contains(desc, <<"p", "e", "r">>)

hasDistinctCueTwoWords(desc) ==
    \/ Contains(desc, <<"d", "i", "s", "t", "i", "n", "c", "t">>)
    \/ Contains(desc, <<"u", "n", "i", "q", "u", "e">>)

hasDistinctCue(desc) ==
    \/ Contains(desc, <<"d", "i", "s", "t", "i", "n", "c", "t">>)
    \/ Contains(desc, <<"u", "n", "i", "q", "u", "e">>)
    \/ Contains(desc, <<"d", "i", "f", "f", "e", "r", "e", "n", "t">>)

\* the query type and the distinct flag
identifyQueryTypeGroupFirst(description) ==
    LET desc == ToLower(description)
    IN  IF hasGroupCue(desc) THEN [queryType |-> "GROUP", distinct |-> FALSE]
        ELSE IF hasCountCue(desc) THEN [queryType |-> "COUNT", distinct |-> FALSE]
        ELSE [queryType |-> "SELECT", distinct |-> hasDistinctCue(desc)]

identifyQueryType(description) ==
    LET desc == ToLower(description)
    IN  IF hasCountCue(desc) THEN [queryType |-> "COUNT", distinct |-> FALSE]
        ELSE IF hasGroupCue(desc) THEN [queryType |-> "GROUP", distinct |-> FALSE]
        ELSE [queryType |-> "SELECT", distinct |-> hasDistinctCue(desc)]

(***************************************************************************)
(* deduplicateJoins                                                        *)
(***************************************************************************)
\* uniqueJoins[key] after the first loop: the last join with that condition
lastWith(joins, key) ==
    joins[CHOOSE i \in DOMAIN joins :
              /\ joins[i].Condition = key
              /\ \A j \in DOMAIN joins : joins[j].Condition = key => j <= i]

\* every result of deduplicateJoins: the second loop ranges over a map
keepAllJoins(joins) == {joins}

deduplicateJoins(joins) ==
    IF Len(joins) <= 1 THEN {joins}
    ELSE LET keys == {joins[i].Condition : i \in DOMAIN joins}
         IN  {[i \in DOMAIN o |-> lastWith(joins, o[i])] : o \in Orders(keys)}

(***************************************************************************)
(* QueryService.buildSQLQuery                                              *)
(***************************************************************************)
\* the loop over tableNames[1:] that calls FindJoinPath: every outcome, with
\* the calls made
RECURSIVE findJoinPaths(_, _, _, _, _)
findJoinPaths(graph, tableNames, i, allJoins, calls) ==
    IF i > Len(tableNames)
    THEN {[joins |-> allJoins, err |-> NoError, calls |-> calls]}
    ELSE UNION {
        IF r.err # NoError
        THEN {[joins |-> <<>>,
               err |-> Errorf(<<"f", "a", "i", "l", "e", "d", " ", "t", "o", " ", "f", "i", "n", "d", " ", "j", "o", "i", "n", " ", "p", "a", "t", "h", ":", " ">> \o r.err[1]),
               calls |-> Append(calls, <<tableNames[1], tableNames[i]>>)]}
        ELSE findJoinPaths(graph, tableNames, i + 1, allJoins \o r.joins,
                           Append(calls, <<tableNames[1], tableNames[i]>>))
        : r \in FindJoinPath(graph, tableNames[1], tableNames[i])}

\* var allJoins and the block that fills it: every outcome, with the joins
\* collected before deduplicateJoins
planJoins(graph, tableNames) ==
    IF Len(tableNames) > 1
    THEN UNION {
        IF p.err # NoError
        THEN {[joins |-> <<>>, err |-> p.err, calls |-> p.calls, collected |-> <<>>]}
        ELSE {[joins |-> d, err |-> NoError, calls |-> p.calls, collected |-> p.joins]
              : d \in deduplicateJoins(p.joins)}
        : p \in findJoinPaths(graph, tableNames, 2, <<>>, <<>>)}
    ELSE {[joins |-> <<>>, err |-> NoError, calls |-> <<>>, collected |-> <<>>]}

\* fmt.Sprintf("%s.%s", match.TableName, match.ColumnName)
qualified(match) == match.TableName \o <<".">> \o match.ColumnName

selectAllMatches(matches, distinct) ==
    IF distinct
    THEN <<"D", "I", "S", "T", "I", "N", "C", "T", " ">> \o Join([i \in DOMAIN matches |-> qualified(matches[i])], <<",", " ">>)
    ELSE Join([i \in DOMAIN matches |-> qualified(matches[i])], <<",", " ">>)

selectCount(matches) == <<"C", "O", "U", "N", "T", "(">> \o qualified(matches[1]) \o <<")">>

selectGroup(matches) == qualified(matches[1]) \o <<",", " ", "C", "O", "U", "N", "T", "(", "*", ")">>

\* the switch on queryType
selectClause(matches, queryType, distinct) ==
    IF queryType = "COUNT" THEN selectCount(matches)
    ELSE IF queryType = "GROUP" THEN selectGroup(matches)
    ELSE selectAllMatches(matches, distinct)

\* table[0:1] panics on an empty table name
aliasPanics(table) == Len(table) = 0
alias(table) == SubSeq(table, 1, 1)

\* fmt.Sprintf("%s %s", tableNames[0], tableNames[0][0:1])
fromClause(table) == table \o <<" ">> \o alias(table)

\* fmt.Sprintf("JOIN %s %s ON %s", join.To, join.To[0:1], condition)
joinClauseOfFrom(join) ==
    <<"J", "O", "I", "N", " ">> \o join.From \o <<" ">> \o alias(join.From) \o <<" ", "O", "N", " ">> \o join.Condition

joinClause(join) ==
    <<"J", "O", "I", "N", " ">> \o join.To \o <<" ">> \o alias(join.To) \o <<" ", "O", "N", " ">> \o join.Condition

\* the loop that builds joinClauses
RECURSIVE joinLoopNoSkip(_, _, _)
joinLoopNoSkip(allJoins, tablesInJoin, joinClauses) ==
    IF allJoins = <<>> THEN [clauses |-> joinClauses, panicked |-> FALSE]
    ELSE IF aliasPanics(Head(allJoins).To)
    THEN [clauses |-> joinClauses, panicked |-> TRUE]
    ELSE joinLoopNoSkip(Tail(allJoins), tablesInJoin \cup {Head(allJoins).To},
                        Append(joinClauses, joinClause(Head(allJoins))))

RECURSIVE joinLoop(_, _, _)
joinLoop(allJoins, tablesInJoin, joinClauses) ==
    IF allJoins = <<>> THEN [clauses |-> joinClauses, panicked |-> FALSE]
    ELSE IF Head(allJoins).To \in tablesInJoin
    THEN joinLoop(Tail(allJoins), tablesInJoin, joinClauses)
    ELSE IF aliasPanics(Head(allJoins).To)
    THEN [clauses |-> joinClauses, panicked |-> TRUE]
    ELSE joinLoop(Tail(allJoins), tablesInJoin \cup {Head(allJoins).To},
                  Append(joinClauses, joinClause(Head(allJoins))))

\* fmt.Sprintf("GROUP BY %s.%s", ...) for a GROUP query
groupByClauseLastMatch(matches, queryType) ==
    IF queryType = "GROUP"
    THEN <<"G", "R", "O", "U", "P", " ", "B", "Y", " ">> \o qualified(matches[Len(matches)]) ELSE <<>>

groupByClause(matches, queryType) ==
    IF queryType = "GROUP" THEN <<"G", "R", "O", "U", "P", " ", "B", "Y", " ">> \o qualified(matches[1]) ELSE <<>>

\* %d of a positive int
RECURSIVE Itoa(_)
Itoa(n) ==
    IF n < 10 THEN <<Digits[n + 1]>> ELSE Itoa(n \div 10) \o <<Digits[(n % 10) + 1]>>

limitClauseNonNegative(limit) == IF limit >= 0 THEN <<"L", "I", "M", "I", "T", " ">> \o Itoa(limit) ELSE <<>>

limitClause(limit) == IF limit > 0 THEN <<"L", "I", "M", "I", "T", " ">> \o Itoa(limit) ELSE <<>>

\* the assembly of the complete query; the WHERE clause is always empty
assemble(select, from, joinClauses, groupBy, limitC) ==
    <<"S", "E", "L", "E", "C", "T", " ">> \o select \o <<" ", "F", "R", "O", "M", " ">> \o from
        \o (IF Len(joinClauses) > 0 THEN <<" ">> \o Join(joinClauses, <<" ">>) ELSE <<>>)
        \o (IF groupBy # <<>> THEN <<" ">> \o groupBy ELSE <<>>)
        \o (IF limitC # <<>> THEN <<" ">> \o limitC ELSE <<>>)

\* what buildSQLQuery returns when it built no query
Unbuilt(err, panicked, tableNames, calls) ==
    [query |-> <<>>, joins |-> <<>>, err |-> err, panicked |-> panicked,
     tableNames |-> tableNames, calls |-> calls, collected |-> <<>>,
     selectClause |-> <<>>, fromClause |-> <<>>, joinClauses |-> <<>>,
     groupByClause |-> <<>>, limitClause |-> <<>>]

\* buildSQLQuery after the join planning, for one order of the tables and one
\* outcome of the planning
buildWith(matches, queryType, distinct, limit, tableNames, plan) ==
    IF plan.err # NoError THEN Unbuilt(plan.err, FALSE, tableNames, plan.calls)
    ELSE IF aliasPanics(tableNames[1]) THEN Unbuilt(NoError, TRUE, tableNames, plan.calls)
    ELSE LET loop == joinLoop(plan.joins, {tableNames[1]}, <<>>)
         IN  IF loop.panicked THEN Unbuilt(NoError, TRUE, tableNames, plan.calls)
             ELSE [query |-> assemble(selectClause(matches, queryType, distinct),
                                      fromClause(tableNames[1]), loop.clauses,
                                      groupByClause(matches, queryType),
                                      limitClause(limit)),
                   joins |-> plan.joins, err |-> NoError, panicked |-> FALSE,
                   tableNames |-> tableNames, calls |-> plan.calls,
                   collected |-> plan.collected,
                   selectClause |-> selectClause(matches, queryType, distinct),
                   fromClause |-> fromClause(tableNames[1]),
                   joinClauses |-> loop.clauses,
                   groupByClause |-> groupByClause(matches, queryType),
                   limitClause |-> limitClause(limit)]

\* the orders in which the tables of the matches land in tableNames: the
\* slice is filled by ranging over the map tables
tableOrders(matches) == Orders({matches[i].TableName : i \in DOMAIN matches})

\* every outcome of buildSQLQuery: the query, the joins and the error, with
\* the locals tableNames, the FindJoinPath calls made and the clauses
buildSQLQuery(graph, matches, queryType, distinct, limit) ==
    IF Len(matches) = 0
    THEN {Unbuilt(Errorf(<<"n", "o", " ", "f", "i", "e", "l", "d", " ", "m", "a", "t", "c", "h", "e", "s", " ", "p", "r", "o", "v", "i", "d", "e", "d">>), FALSE, <<>>, <<>>)}
    ELSE UNION {{buildWith(matches, queryType, distinct, limit, tableNames, plan)
                 : plan \in planJoins(graph, tableNames)}
                : tableNames \in tableOrders(matches)}

(***************************************************************************)
(* QueryService.calculateConfidence                                        *)
(***************************************************************************)
RECURSIVE totalScore(_)
totalScore(matches) ==
    IF matches = <<>> THEN Rat(0, 1)
    ELSE RatAdd(Head(matches).MatchScore, totalScore(Tail(matches)))

calculateConfidenceMean(matches) ==
    IF Len(matches) = 0 THEN Rat(0, 1)
    ELSE RatMul(totalScore(matches), Rat(1, Len(matches)))

calculateConfidence(matches) ==
    IF Len(matches) = 0 THEN Rat(0, 1)
    ELSE RatMul(RatMul(totalScore(matches), Rat(1, Len(matches))),
                RatMin(Rat(Len(matches), 3), Rat(1, 1)))

(***************************************************************************)
(* QueryService.GenerateQuery                                              *)
(***************************************************************************)
\* the threshold and the maximum GenerateQuery passes to FindFieldMatches
queryThreshold == 30
queryMaxMatches == 10

\* models.QueryResponse{}
EmptyResponse ==
    [Query |-> <<>>, MatchedFields |-> <<>>, JoinsUsed |-> <<>>, Confidence |-> Rat(0, 1)]

matchFieldsAnyScore(fs, keywords) ==
    FindFieldMatches(fs, keywords, Rat(0, 1), queryMaxMatches).matches

matchFields(fs, keywords) ==
    FindFieldMatches(fs, keywords, Rat(queryThreshold, 1), queryMaxMatches).matches

\* every outcome of GenerateQuery: the response and the error, with the
\* keywords, the intent, the matched fields and the outcome of buildSQLQuery;
\* the processing time of the response is a clock reading and is left out
GenerateQuery(fs, graph, request) ==
    LET keywords == extractKeywords(request.Description)
        intent == identifyQueryType(request.Description)
        matchedFields == matchFields(fs, keywords)
        Outcome(response, err, panicked, build) ==
            [response |-> response, err |-> err, panicked |-> panicked,
             keywords |-> keywords, queryType |-> intent.queryType,
             distinct |-> intent.distinct, matched |-> matchedFields,
             built |-> build]
    IN  IF Len(matchedFields) = 0
        THEN {Outcome(EmptyResponse,
                      Errorf(<<"n", "o", " ", "m", "a", "t", "c", "h", "i", "n", "g", " ", "f", "i", "e", "l", "d", "s", " ", "f", "o", "u", "n", "d", " ", "f", "o", "r", " ", "d", "e", "s", "c", "r", "i", "p", "t", "i", "o", "n">>), FALSE,
                      Unbuilt(NoError, FALSE, <<>>, <<>>))}
        ELSE {IF b.panicked THEN Outcome(EmptyResponse, NoError, TRUE, b)
              ELSE IF b.err # NoError
              THEN Outcome(EmptyResponse,
                           Errorf(<<"f", "a", "i", "l", "e", "d", " ", "t", "o", " ", "b", "u", "i", "l", "d", " ", "S", "Q", "L", " ", "q", "u", "e", "r", "y", ":", " ">> \o b.err[1]), FALSE, b)
              ELSE Outcome([Query |-> b.query, MatchedFields |-> matchedFields,
                            JoinsUsed |-> b.joins,
                            Confidence |-> calculateConfidence(matchedFields)],
                           NoError, FALSE, b)
              : b \in buildSQLQuery(graph, matchedFields, intent.queryType,
                                    intent.distinct, request.Limit)}

(***************************************************************************)
(* The catalogs, descriptions and arguments of the calls.                  *)
(***************************************************************************)
\* the longest sequence of declarations added to the README catalog
MaxExtra == 1
\* the most phrases in a description
MaxWords == 2
\* the most keywords in a keyword list passed to FindFieldMatches
MaxKeywords == 2
\* the largest maxMatches passed to FindFieldMatches
MaxResults == 2

\* the catalog without the rows of the set dropped
Without(catalog, dropped) ==
    LET Keep(i) == i \notin dropped
    IN  [k \in 1..Cardinality({i \in DOMAIN catalog : Keep(i)}) |->
            catalog[CHOOSE i \in DOMAIN catalog :
                        Keep(i) /\ Cardinality({j \in 1..i : Keep(j)}) = k]]

\* the rows of the README catalog that declare a foreign key
ReadmeDeclRows == {i \in DOMAIN ReadmeCatalog : ~skipField(ReadmeCatalog[i])}

\* declarations added after the README catalog
ExtraPool == <<DeclPool[4], DeclPool[5]>>

ExtraSeqs(n) ==
    UNION {{[i \in 1..k |-> ExtraPool[s[i]]] :
               s \in {t \in [1..k -> DOMAIN ExtraPool] :
                         \A i, j \in 1..k : t[i] = t[j] => i = j}} : k \in 0..n}

\* the README catalog, the README catalog without some of its declarations,
\* and the README catalog followed by further declarations
QueryCatalogs ==
    {Without(ReadmeCatalog, dropped) : dropped \in SUBSET ReadmeDeclRows}
        \cup {ReadmeCatalog \o extra : extra \in ExtraSeqs(MaxExtra)}

\* the phrases descriptions are made of
Vocabulary == <<
    <<"C", "o", "u", "n", "t">>, <<"h", "o", "w", " ", "m", "a", "n", "y">>, <<"n", "u", "m", "b", "e", "r", " ", "o", "f">>,
    <<"g", "r", "o", "u", "p", "e", "d">>, <<"p", "e", "r", " ", "u", "s", "e", "r">>,
    <<"d", "i", "s", "t", "i", "n", "c", "t">>, <<"u", "n", "i", "q", "u", "e">>, <<"d", "i", "f", "f", "e", "r", "e", "n", "t">>,
    <<"u", "s", "e", "r">>, <<"d", "i", "s", "p", "l", "a", "y", "-", "n", "a", "m", "e">>, <<"t", "h", "e">> >>

\* the phrases of the vocabulary with an index in the set, in vocabulary order
Phrases(chosen) == SelectSeq(Vocabulary, LAMBDA p : \E i \in chosen : Vocabulary[i] = p)

\* the description of the README's unique-products scenario
UniqueProductNames == <<"u", "n", "i", "q", "u", "e", " ", "p", "r", "o", "d", "u", "c", "t", " ", "n", "a", "m", "e", "s", " ", "o", "r", "d", "e", "r", "e", "d">>

\* the descriptions made of at most MaxWords different phrases, and the
\* description of the scenario
Descriptions ==
    {Join(Phrases(chosen), <<" ">>) :
        chosen \in {c \in SUBSET DOMAIN Vocabulary : Cardinality(c) <= MaxWords}}
        \cup {UniqueProductNames}

Limits == {-1, 0, 25}

Requests ==
    {[Description |-> d, System |-> <<"d", "e", "f", "a", "u", "l", "t">>, Limit |-> l]
     : d \in Descriptions, l \in Limits}

\* the keywords FindFieldMatches is called with
KeywordPool == {<<"u", "s", "e", "r">>, <<"O", "r", "d", "e", "r">>, <<"z", "i", "p">>}

KeywordLists == UNION {[1..k -> KeywordPool] : k \in 0..MaxKeywords}

Thresholds == {Rat(0, 1), Rat(50, 1)}

(***************************************************************************)
(* The calls on the query service and the field service.                   *)
(***************************************************************************)
FindFieldMatchesCall(keywords, threshold, maxMatches) ==
    /\ last = Idle
    /\ LET r == FindFieldMatches(fields, keywords, threshold, maxMatches)
       IN  last' = [op |-> "FindFieldMatches", keywords |-> keywords,
                    threshold |-> threshold, maxMatches |-> maxMatches,
                    matches |-> r.matches, panicked |-> r.panicked]
    /\ UNCHANGED <<fields, relationshipGraph, process>>

GenerateQueryCall(request) ==
    /\ last = Idle
    /\ \E out \in GenerateQuery(fields, relationshipGraph, request) :
           last' = [op |-> "GenerateQuery", request |-> request,
                    response |-> out.response, err |-> out.err,
                    panicked |-> out.panicked, keywords |-> out.keywords,
                    queryType |-> out.queryType, distinct |-> out.distinct,
                    matched |-> out.matched, built |-> out.built]
    /\ UNCHANGED <<fields, relationshipGraph, process>>

\* NewFieldService and NewQueryService over a catalog
Init ==
    /\ fields \in QueryCatalogs
    /\ relationshipGraph = buildRelationshipGraph(fields)
    /\ last = Idle
    /\ Serving

Next ==
    \/ \E request \in Requests : GenerateQueryCall(request)
    \/ \E keywords \in KeywordLists, threshold \in Thresholds,
          maxMatches \in (-1)..MaxResults :
           FindFieldMatchesCall(keywords, threshold, maxMatches)
    \/ \E fromTable, toTable \in TableNames : FindJoinPathCall(fromTable, toTable)
    \/ Return

Spec == Init /\ [][Next]_vars

(***************************************************************************)
(* Vocabulary of the properties of the matcher and of the generated query. *)
(***************************************************************************)
\* a >= b on scores
GEq(a, b) == a.num * b.den >= b.num * a.den

Min(a, b) == IF a < b THEN a ELSE b

StartsWith(s, prefix) ==
    Len(prefix) <= Len(s) /\ \A j \in 1..Len(prefix) : s[j] = prefix[j]

\* the number of places of s where substr occurs
Occurrences(s, substr) ==
    Cardinality({i \in 0..(Len(s) - Len(substr)) :
                    \A j \in 1..Len(substr) : s[i + j] = substr[j]})

\* the description contains one of the cues, whatever the case of its letters
HasCue(description, cues) == \E cue \in cues : Contains(ToLower(description), cue)

CountCues == {<<"c", "o", "u", "n", "t">>, <<"h", "o", "w", " ", "m", "a", "n", "y">>, <<"n", "u", "m", "b", "e", "r", " ", "o", "f">>}
GroupCues == {<<"g", "r", "o", "u", "p">>, <<"g", "r", "o", "u", "p", "e", "d">>, <<"p", "e", "r">>}
DistinctCues == {<<"d", "i", "s", "t", "i", "n", "c", "t">>, <<"u", "n", "i", "q", "u", "e">>, <<"d", "i", "f", "f", "e", "r", "e", "n", "t">>}

\* GenerateQuery returned a response and no error
Succeeded == last.op = "GenerateQuery" /\ last.err = NoError /\ ~last.panicked

\* the score of the i-th field of the catalog for the keywords
ScoreOfField(i, keywords) == calculateMatchScore(fields[i].Description, keywords)

\* the fields of the catalog that score at or above the threshold
AtOrAbove(keywords, threshold) ==
    {i \in DOMAIN fields : GEq(ScoreOfField(i, keywords), threshold)}

\* <table>.<column> of a match
Column(match) == match.TableName \o <<".">> \o match.ColumnName

(***************************************************************************)
(* C4: for maxMatches >= 0, FindFieldMatches returns only fields that      *)
(* score at or above the threshold, in non-increasing score order, and as  *)
(* many of them as maxMatches allows: the first maxMatches of the fields   *)
(* at or above the threshold by descending score, so that no omitted field *)
(* scores higher than a returned one.                                      *)
(***************************************************************************)
C4_RankedAboveThreshold ==
    (last.op = "FindFieldMatches" /\ last.maxMatches >= 0) =>
        LET m == last.matches
            kept == AtOrAbove(last.keywords, last.threshold)
            MatchOf(i) == FieldMatch(fields[i], ScoreOfField(i, last.keywords))
        IN  /\ ~last.panicked
            /\ \A k \in DOMAIN m :
                   /\ GEq(m[k].MatchScore, last.threshold)
                   /\ \E i \in kept : MatchOf(i) = m[k]
            /\ \A k1, k2 \in DOMAIN m :
                   /\ k1 < k2 => GEq(m[k1].MatchScore, m[k2].MatchScore)
                   /\ k1 # k2 => m[k1] # m[k2]
            /\ Len(m) = Min(last.maxMatches, Cardinality(kept))
            /\ \A i \in kept : MatchOf(i) \notin Range(m) =>
                   \A k \in DOMAIN m : GEq(m[k].MatchScore, ScoreOfField(i, last.keywords))

\* a truncated result: the best field, which is not the first of the catalog,
\* comes first, a field scoring exactly the threshold is kept, others are cut
C4_Witness ==
    /\ last.op = "FindFieldMatches"
    /\ last.threshold = Rat(50, 1)
    /\ last.maxMatches = 2
    /\ Len(last.matches) = 2
    /\ last.matches[1].MatchScore = Rat(100, 1)
    /\ last.matches[2].MatchScore = Rat(50, 1)
    /\ Cardinality(AtOrAbove(last.keywords, last.threshold)) > 2
    /\ ScoreOfField(1, last.keywords) = Rat(50, 1)

C7_GroupIntent ==
    ( /\ last.op = "GenerateQuery"
      /\ ~HasCue(last.request.Description, CountCues)
      /\ HasCue(last.request.Description, GroupCues) ) =>
        /\ last.queryType = "GROUP"
        /\ ~last.distinct
        /\ Succeeded =>
               LET first == last.response.MatchedFields[1]
               IN  /\ last.built.selectClause = Column(first) \o <<",", " ", "C", "O", "U", "N", "T", "(", "*", ")">>
                   /\ StartsWith(last.response.Query,
                          <<"S", "E", "L", "E", "C", "T", " ">> \o Column(first) \o <<",", " ", "C", "O", "U", "N", "T", "(", "*", ")", " ", "F", "R", "O", "M", " ">>)
                   /\ last.built.groupByClause = <<"G", "R", "O", "U", "P", " ", "B", "Y", " ">> \o Column(first)
                   /\ Occurrences(last.response.Query, <<" ", "G", "R", "O", "U", "P", " ", "B", "Y", " ">>) = 1
                   /\ Contains(last.response.Query, <<" ", "G", "R", "O", "U", "P", " ", "B", "Y", " ">> \o Column(first))
                   /\ ~Contains(last.response.Query, <<"D", "I", "S", "T", "I", "N", "C", "T">>)

\* a GROUP cue with a DISTINCT cue, and matches whose first and last differ
C7_Witness ==
    /\ Succeeded
    /\ last.queryType = "GROUP"
    /\ HasCue(last.request.Description, DistinctCues)
    /\ Len(last.response.MatchedFields) > 1
    /\ Column(last.response.MatchedFields[1])
           # Column(last.response.MatchedFields[Len(last.response.MatchedFields)])

(***************************************************************************)
(* C8: when no field of the catalog scores at or above the threshold 30    *)
(* for the keywords extracted from the description, also when no keyword   *)
(* is extracted, GenerateQuery returns the error "no matching fields       *)
(* found" and an empty response; a successful response never has an empty  *)
(* list of matched fields.                                                 *)
(***************************************************************************)
C8_NoMatches ==
    last.op = "GenerateQuery" =>
        /\ AtOrAbove(last.keywords, Rat(30, 1)) = {} =>
               /\ last.err # NoError
               /\ Contains(last.err[1], <<"n", "o", " ", "m", "a", "t", "c", "h", "i", "n", "g", " ", "f", "i", "e", "l", "d", "s", " ", "f", "o", "u", "n", "d">>)
               /\ last.response = EmptyResponse
               /\ ~last.panicked
        /\ Succeeded => last.response.MatchedFields # <<>>
        /\ last.request.Description \in {<<>>, <<"t", "h", "e">>} => last.keywords = <<>>

\* a description made of a stop-word only
C8_Witness ==
    /\ last.op = "GenerateQuery"
    /\ last.request.Description = <<"t", "h", "e">>
    /\ last.keywords = <<>>
    /\ fields # <<>>
    /\ last.err # NoError

(***************************************************************************)
(* C9: in a successful query every table that owns a matched field is      *)
(* introduced exactly once, by the FROM clause or by one JOIN clause; when *)
(* the matched fields span several tables there is a JOIN clause and       *)
(* joinsUsed is not empty; when they belong to one table there is no JOIN  *)
(* clause, joinsUsed is empty, FindJoinPath is not called and the query    *)
(* succeeds whether or not the table is a node of the graph.               *)
(***************************************************************************)
MatchedTables == {last.matched[k].TableName : k \in DOMAIN last.matched}

\* the JOIN clauses that introduce the table
JoinsOf(table) ==
    {k \in DOMAIN last.built.joinClauses :
        StartsWith(last.built.joinClauses[k], <<"J", "O", "I", "N", " ">> \o table \o <<" ">>)}

FromIs(table) == StartsWith(last.built.fromClause, table \o <<" ">>)

C9_TablesIntroducedOnce ==
    last.op = "GenerateQuery" =>
        /\ Succeeded =>
               /\ \A t \in MatchedTables :
                      \/ FromIs(t) /\ JoinsOf(t) = {}
                      \/ ~FromIs(t) /\ Cardinality(JoinsOf(t)) = 1
               /\ Contains(last.response.Query, <<" ", "F", "R", "O", "M", " ">> \o last.built.fromClause)
               /\ \A k \in DOMAIN last.built.joinClauses :
                      Contains(last.response.Query, <<" ">> \o last.built.joinClauses[k])
               /\ Occurrences(last.response.Query, <<" ", "J", "O", "I", "N", " ">>)
                      = Len(last.built.joinClauses)
               /\ Cardinality(MatchedTables) > 1 =>
                      /\ Occurrences(last.response.Query, <<" ", "J", "O", "I", "N", " ">>) >= 1
                      /\ last.response.JoinsUsed # <<>>
               /\ Cardinality(MatchedTables) = 1 =>
                      /\ ~Contains(last.response.Query, <<"J", "O", "I", "N">>)
                      /\ last.response.JoinsUsed = <<>>
        /\ Cardinality(MatchedTables) = 1 =>
               /\ Succeeded
               /\ last.built.calls = <<>>

\* three tables: one in the FROM clause, two joined
C9_Witness ==
    /\ Succeeded
    /\ Cardinality(MatchedTables) = 3
    /\ Len(last.built.joinClauses) >= 2
    /\ \E t \in MatchedTables : FromIs(t)

(***************************************************************************)
(* C10: against the README catalog, GenerateQuery for "unique product      *)
(* names ordered" succeeds with a query that contains DISTINCT and at      *)
(* least two JOIN clauses, and with at least two edges in joinsUsed.       *)
(***************************************************************************)
C10_UniqueProductNames ==
    ( /\ last.op = "GenerateQuery"
      /\ fields = ReadmeCatalog
      /\ last.request.Description = UniqueProductNames ) =>
        /\ Succeeded
        /\ Contains(last.response.Query, <<"D", "I", "S", "T", "I", "N", "C", "T">>)
        /\ Occurrences(last.response.Query, <<"J", "O", "I", "N", " ">>) >= 2
        /\ Len(last.response.JoinsUsed) >= 2


(***************************************************************************)
(* Vocabulary of the properties of the assembled query text.               *)
(***************************************************************************)
\* the places of s where substr starts
Positions(s, substr) ==
    {i \in 1..(Len(s) - Len(substr) + 1) : \A j \in 1..Len(substr) : s[i + j - 1] = substr[j]}

\* every occurrence of a in s starts before every occurrence of b
Precedes(s, a, b) == \A i \in Positions(s, a), j \in Positions(s, b) : i < j

\* a decimal numeral without sign or leading zero, and the number it denotes
IsNumeral(s) == s # <<>> /\ s[1] # "0" /\ \A i \in DOMAIN s : s[i] \in Range(Digits)

(***************************************************************************)
(* C11: a successful query ends with the clause LIMIT <n>, n written in    *)
(* decimal, exactly when the limit n of the request is positive; with a    *)
(* limit of 0 or a negative limit the word LIMIT does not occur in it; and *)
(* the clauses come in the order SELECT, FROM, JOINs, GROUP BY, LIMIT.     *)
(***************************************************************************)
C11_LimitLast ==
    Succeeded =>
        LET q == last.response.Query
            n == last.request.Limit
            LimitAt(k) ==
                LET numeral == SubSeq(q, k + 7, Len(q))
                IN  IsNumeral(numeral) /\ DecimalValue(numeral) = n
        IN  /\ (n > 0) <=> (\E k \in Positions(q, <<" ", "L", "I", "M", "I", "T", " ">>) : LimitAt(k))
            /\ (n <= 0) => ~Contains(q, <<"L", "I", "M", "I", "T">>)
            /\ Cardinality(Positions(q, <<"L", "I", "M", "I", "T">>)) <= 1
            /\ Positions(q, <<"S", "E", "L", "E", "C", "T", " ">>) = {1}
            /\ Cardinality(Positions(q, <<" ", "F", "R", "O", "M", " ">>)) = 1
            /\ Precedes(q, <<"S", "E", "L", "E", "C", "T", " ">>, <<" ", "F", "R", "O", "M", " ">>)
            /\ Precedes(q, <<" ", "F", "R", "O", "M", " ">>, <<" ", "J", "O", "I", "N", " ">>)
            /\ Precedes(q, <<" ", "F", "R", "O", "M", " ">>, <<" ", "G", "R", "O", "U", "P", " ", "B", "Y", " ">>)
            /\ Precedes(q, <<" ", "F", "R", "O", "M", " ">>, <<" ", "L", "I", "M", "I", "T", " ">>)
            /\ Precedes(q, <<" ", "J", "O", "I", "N", " ">>, <<" ", "G", "R", "O", "U", "P", " ", "B", "Y", " ">>)
            /\ Precedes(q, <<" ", "J", "O", "I", "N", " ">>, <<" ", "L", "I", "M", "I", "T", " ">>)
            /\ Precedes(q, <<" ", "G", "R", "O", "U", "P", " ", "B", "Y", " ">>, <<" ", "L", "I", "M", "I", "T", " ">>)

\* a GROUP query over joined tables with a positive limit
C11_Witness ==
    /\ Succeeded
    /\ last.request.Limit = 25
    /\ last.queryType = "GROUP"
    /\ last.built.joinClauses # <<>>
    /\ Positions(last.response.Query, <<" ", "G", "R", "O", "U", "P", " ", "B", "Y", " ">>) # {}
    /\ Positions(last.response.Query, <<" ", "L", "I", "M", "I", "T", " ", "2", "5">>)
           = {Len(last.response.Query) - 8}

(***************************************************************************)
(* C12: for a catalog, a description and a limit, every invocation of      *)
(* GenerateQuery returns the same query, the same matched fields and the   *)
(* same joinsUsed, also when the matched fields span several tables.       *)
(***************************************************************************)
C12_Deterministic ==
    last.op = "GenerateQuery" =>
        \A out \in GenerateQuery(fields, relationshipGraph, last.request) :
            /\ out.response.Query = last.response.Query
            /\ out.response.MatchedFields = last.response.MatchedFields
            /\ out.response.JoinsUsed = last.response.JoinsUsed

(***************************************************************************)
(* C13: whenever buildSQLQuery is given matches, the table of the FROM     *)
(* clause, which is also the origin of every FindJoinPath call, is the     *)
(* table of the first match.                                               *)
(***************************************************************************)
C13_PrimaryIsFirstMatch ==
    (last.op = "GenerateQuery" /\ last.matched # <<>>) =>
        /\ last.built.tableNames[1] = last.matched[1].TableName
        /\ \A k \in DOMAIN last.built.calls :
               last.built.calls[k][1] = last.matched[1].TableName
        /\ Succeeded => FromIs(last.matched[1].TableName)

(***************************************************************************)
(* FieldService.loadCSV and NewFieldService.  A file is the sequence of    *)
(* its records, a record the sequence of its cells.                        *)
(***************************************************************************)
Header == <<
    <<"c", "o", "l", "u", "m", "n", "_", "n", "a", "m", "e">>, <<"t", "a", "b", "l", "e", "_", "n", "a", "m", "e">>, <<"s", "y", "s", "t", "e", "m", "_", "a", "_", "f", "i", "e", "l", "d", "m", "a", "p">>,
    <<"s", "y", "s", "t", "e", "m", "_", "b", "_", "f", "i", "e", "l", "d", "m", "a", "p">>, <<"f", "i", "e", "l", "d", "_", "d", "e", "s", "c", "r", "i", "p", "t", "i", "o", "n">>, <<"f", "i", "e", "l", "d", "_", "t", "y", "p", "e">>,
    <<"j", "o", "i", "n", "_", "k", "e", "y">>, <<"f", "o", "r", "e", "i", "g", "n", "_", "t", "a", "b", "l", "e">>, <<"f", "o", "r", "e", "i", "g", "n", "_", "k", "e", "y">> >>

\* the record of a field, and the file of a catalog
Row(f) ==
    <<f.ColumnName, f.TableName, f.SystemAFieldMap, f.SystemBFieldMap,
      f.Description, f.FieldType, f.JoinKey, f.ForeignTable, f.ForeignKey>>

FileOf(catalog) == <<Header>> \o [i \in DOMAIN catalog |-> Row(catalog[i])]

\* the file with the cells after the n-th cut from record i, from every
\* record, and the file with a cell added to every record
CutRecord(records, i, n) ==
    [k \in DOMAIN records |-> IF k = i THEN SubSeq(records[k], 1, n) ELSE records[k]]

CutEvery(records, n) == [k \in DOMAIN records |-> SubSeq(records[k], 1, n)]

Widen(records) == [k \in DOMAIN records |-> Append(records[k], <<"n", "o", "t", "e">>)]

\* a field of a table without a name, and a catalog with it and with fields
\* that have no alias in one of the systems
Unnamed ==
    Field(<<"n", "i", "c", "k", "n", "a", "m", "e">>, <<>>, <<"n", "i", "c", "k">>, <<"a", "l", "i", "a", "s">>,
          <<"P", "r", "e", "f", "e", "r", "r", "e", "d", " ", "n", "i", "c", "k", "n", "a", "m", "e">>, <<"V", "A", "R", "C", "H", "A", "R">>, <<>>, <<>>, <<>>)

ExtendedCatalog == ReadmeCatalog \o <<DeclPool[4], DeclPool[5], Unnamed>>

\* the files of the file system, by path
FileSystem ==
    (<<"f", "i", "e", "l", "d", "_", "m", "a", "p", "p", "i", "n", "g", "s", ".", "c", "s", "v">> :> FileOf(ReadmeCatalog))
        @@ (<<"e", "x", "t", "e", "n", "d", "e", "d", ".", "c", "s", "v">> :> FileOf(ExtendedCatalog))
        @@ (<<"h", "e", "a", "d", "e", "r", ".", "c", "s", "v">> :> <<Header>>)
        @@ (<<"e", "m", "p", "t", "y", ".", "c", "s", "v">> :> <<>>)
        @@ (<<"s", "h", "o", "r", "t", ".", "c", "s", "v">> :> CutRecord(FileOf(ReadmeCatalog), 4, 8))
        @@ (<<"n", "a", "r", "r", "o", "w", ".", "c", "s", "v">> :> CutEvery(FileOf(ReadmeCatalog), 8))
        @@ (<<"w", "i", "d", "e", ".", "c", "s", "v">> :> Widen(FileOf(ReadmeCatalog)))

MissingPath == <<"m", "i", "s", "s", "i", "n", "g", ".", "c", "s", "v">>

\* csv.Reader.ReadAll with FieldsPerRecord 0: the first record sets the
\* number of cells, a record with another number of cells is an error
wrongNumberOfFields(records) ==
    {i \in DOMAIN records : Len(records[i]) # Len(records[1])}

ReadAll(records) ==
    IF wrongNumberOfFields(records) # {}
    THEN LET line == CHOOSE i \in wrongNumberOfFields(records) :
                         \A j \in wrongNumberOfFields(records) : i <= j
         IN  [records |-> <<>>,
              err |-> Errorf(<<"r", "e", "c", "o", "r", "d", " ", "o", "n", " ", "l", "i", "n", "e", " ">> \o Itoa(line)
                                 \o <<":", " ", "w", "r", "o", "n", "g", " ", "n", "u", "m", "b", "e", "r", " ", "o", "f", " ", "f", "i", "e", "l", "d", "s">>)]
    ELSE [records |-> records, err |-> NoError]

\* len(row) < 9
invalidRow(row) == Len(row) < 9

fieldOfRow(row) ==
    Field(row[1], row[2], row[3], row[4], row[5], row[6], row[7], row[8], row[9])

\* the loop over records[1:]
RECURSIVE appendFields(_, _)
appendFields(rows, loaded) ==
    IF rows = <<>> THEN loaded
    ELSE IF invalidRow(Head(rows)) THEN appendFields(Tail(rows), loaded)
    ELSE appendFields(Tail(rows), Append(loaded, fieldOfRow(Head(rows))))

loadCSV(path) ==
    IF path \notin DOMAIN FileSystem
    THEN [fields |-> <<>>,
          err |-> Errorf(<<"f", "a", "i", "l", "e", "d", " ", "t", "o", " ", "o", "p", "e", "n", " ", "C", "S", "V", " ", "f", "i", "l", "e", ":", " ", "o", "p", "e", "n", " ">> \o path
                             \o <<":", " ", "n", "o", " ", "s", "u", "c", "h", " ", "f", "i", "l", "e", " ", "o", "r", " ", "d", "i", "r", "e", "c", "t", "o", "r", "y">>)]
    ELSE LET read == ReadAll(FileSystem[path])
         IN  IF read.err # NoError
             THEN [fields |-> <<>>,
                   err |-> Errorf(<<"f", "a", "i", "l", "e", "d", " ", "t", "o", " ", "r", "e", "a", "d", " ", "C", "S", "V", ":", " ">> \o read.err[1])]
             ELSE IF Len(read.records) > 0
             THEN [fields |-> appendFields(Tail(read.records), <<>>), err |-> NoError]
             ELSE [fields |-> <<>>, err |-> NoError]

NewFieldService(config) ==
    LET loaded == loadCSV(config.CSVPath)
    IN  IF loaded.err # NoError
        THEN [fields |-> <<>>, relationshipGraph |-> EmptyMap,
              err |-> Errorf(<<"f", "a", "i", "l", "e", "d", " ", "t", "o", " ", "l", "o", "a", "d", " ", "C", "S", "V", ":", " ">> \o loaded.err[1])]
        ELSE [fields |-> loaded.fields,
              relationshipGraph |-> buildRelationshipGraph(loaded.fields),
              err |-> NoError]

(***************************************************************************)
(* FieldService.GetAllFields                                               *)
(***************************************************************************)
hasMappingOrNone(field, system) ==
    system = <<"s", "y", "s", "t", "e", "m", "_", "a">> \/ system = <<"s", "y", "s", "t", "e", "m", "_", "b">>

hasMapping(field, system) ==
    \/ system = <<"s", "y", "s", "t", "e", "m", "_", "a">> /\ field.SystemAFieldMap # <<>>
    \/ system = <<"s", "y", "s", "t", "e", "m", "_", "b">> /\ field.SystemBFieldMap # <<>>

GetAllFields(fs, system) ==
    IF system = <<>> \/ system = <<"d", "e", "f", "a", "u", "l", "t">> THEN fs
    ELSE SelectSeq(fs, LAMBDA field : hasMapping(field, system))

(***************************************************************************)
(* The handlers.  A JSON body and a query string are records of the keys   *)
(* they carry.  A response is its status and its JSON object; gin's        *)
(* recovery answers a panic of the handler with status 500 and no body.    *)
(***************************************************************************)
NoBody == <<>>

\* c.ShouldBindJSON into models.QueryRequest
Bind(body) ==
    [Description |-> IF "description" \in DOMAIN body THEN body.description ELSE <<>>,
     System |-> IF "system" \in DOMAIN body THEN body.system ELSE <<>>,
     Limit |-> IF "limit" \in DOMAIN body THEN body.limit ELSE 0]

\* binding:"required" on Description
required(request) ==
    IF request.Description = <<>>
    THEN Errorf(<<"K", "e", "y", ":", " ", "'", "Q", "u", "e", "r", "y", "R", "e", "q", "u", "e", "s", "t", ".", "D", "e", "s", "c", "r", "i", "p", "t", "i", "o", "n", "'", " ", "E", "r", "r", "o", "r", ":", "F", "i", "e", "l", "d", " ", "v", "a", "l", "i", "d", "a", "t", "i", "o", "n", " ", "f", "o", "r", " ", "'", "D", "e", "s", "c", "r", "i", "p", "t", "i", "o", "n", "'", " ", "f", "a", "i", "l", "e", "d", " ", "o", "n", " ", "t", "h", "e", " ", "'", "r", "e", "q", "u", "i", "r", "e", "d", "'", " ", "t", "a", "g">>)
    ELSE NoError

\* if request.System == "" { request.System = "default" }
keepSystem(request) == request

defaultSystem(request) ==
    IF request.System = <<>> THEN [request EXCEPT !.System = <<"d", "e", "f", "a", "u", "l", "t">>] ELSE request

\* the response to the outcome of GenerateQuery
respond(out) ==
    IF out.panicked THEN [status |-> 500, json |-> NoBody]
    ELSE IF out.err # NoError
    THEN [status |-> 500,
          json |-> [error |-> <<"F", "a", "i", "l", "e", "d", " ", "t", "o", " ", "g", "e", "n", "e", "r", "a", "t", "e", " ", "q", "u", "e", "r", "y", ":", " ">> \o out.err[1]]]
    ELSE [status |-> 200, json |-> out.response]

\* every run of GenerateQueryHandler on a body: the response, whether
\* GenerateQuery was called, the request it was called with and its outcome
GenerateQueryHandler(fs, graph, body) ==
    LET bound == Bind(body)
        invalid == required(bound)
    IN  IF invalid # NoError
        THEN {[response |-> [status |-> 400,
                             json |-> [error |-> <<"I", "n", "v", "a", "l", "i", "d", " ", "r", "e", "q", "u", "e", "s", "t", " ", "f", "o", "r", "m", "a", "t", ":", " ">>
                                                     \o invalid[1]]],
               called |-> FALSE, request |-> bound, out |-> NoBody]}
        ELSE {[response |-> respond(out), called |-> TRUE,
               request |-> defaultSystem(bound), out |-> out]
              : out \in GenerateQuery(fs, graph, defaultSystem(bound))}

\* c.Query("system") is empty when the parameter is missing
ListFieldsHandler(fs, query) ==
    LET given == IF "system" \in DOMAIN query THEN query.system ELSE <<>>
        system == IF given = <<>> THEN <<"d", "e", "f", "a", "u", "l", "t">> ELSE given
    IN  [response |-> [status |-> 200, json |-> [fields |-> GetAllFields(fs, system)]],
         system |-> system]

(***************************************************************************)
(* The server: main loads the configuration, SetupRoutes builds the        *)
(* services and registers the routes, Run serves.  Every request is        *)
(* handled by a goroutine of its own; inflight is the set of the requests  *)
(* received and not yet answered, last is the response sent last.          *)
(***************************************************************************)
\* the most requests handled at the same time
MaxInflight == 2

Environment(path, threshold, maxMatches) ==
    [PORT |-> <<>>, CSV_PATH |-> path,
     MATCH_THRESHOLD |-> threshold, MAX_MATCHES |-> maxMatches]

Environments == {
    NoEnv,
    Environment(<<>>, <<"a", "b", "c">>, <<"x">>),
    Environment(<<"e", "x", "t", "e", "n", "d", "e", "d", ".", "c", "s", "v">>, <<"3", "0", ".", "0">>, <<"+", "1", "0">>),
    Environment(<<"e", "x", "t", "e", "n", "d", "e", "d", ".", "c", "s", "v">>, <<"6", "0">>, <<"1">>),
    Environment(<<"h", "e", "a", "d", "e", "r", ".", "c", "s", "v">>, <<>>, <<>>),
    Environment(<<"e", "m", "p", "t", "y", ".", "c", "s", "v">>, <<>>, <<>>),
    Environment(<<"s", "h", "o", "r", "t", ".", "c", "s", "v">>, <<>>, <<>>),
    Environment(<<"n", "a", "r", "r", "o", "w", ".", "c", "s", "v">>, <<>>, <<>>),
    Environment(<<"w", "i", "d", "e", ".", "c", "s", "v">>, <<>>, <<>>),
    Environment(MissingPath, <<>>, <<>>) }

\* the JSON bodies posted to generate-query
Bodies == {
    <<>>,
    [description |-> <<>>],
    [description |-> <<"u", "s", "e", "r">>],
    [description |-> <<"u", "s", "e", "r">>, system |-> <<"s", "y", "s", "t", "e", "m", "_", "a">>, limit |-> 25],
    [description |-> <<"n", "i", "c", "k", "n", "a", "m", "e">>, system |-> <<"s", "y", "s", "t", "e", "m", "_", "b">>, limit |-> -1],
    [description |-> <<"z", "i", "p">>] }

\* the query strings of the requests for fields
Queries == {<<>>, [system |-> <<"s", "y", "s", "t", "e", "m", "_", "a">>], [system |-> <<"s", "y", "s", "t", "e", "m", "_", "c">>]}

Systems == {<<>>, <<"d", "e", "f", "a", "u", "l", "t">>, <<"s", "y", "s", "t", "e", "m", "_", "a">>, <<"s", "y", "s", "t", "e", "m", "_", "b">>, <<"s", "y", "s", "t", "e", "m", "_", "c">>}

Arrivals ==
    {[route |-> GenerateQueryRoute, input |-> body] : body \in Bodies}
        \cup {[route |-> FieldsRoute, input |-> query] : query \in Queries}
        \cup {[route |-> HealthRoute, input |-> <<>>]}

\* main before SetupRoutes
InitServer ==
    /\ cfg \in {Load(env) : env \in Environments}
    /\ phase = "main"
    /\ routes = {}
    /\ fields = <<>>
    /\ relationshipGraph = EmptyMap
    /\ inflight = {}
    /\ last = Idle

\* the routes registered by SetupRoutes
registersAlways(err) == AllRoutes

registers(err) == IF err # NoError THEN {} ELSE AllRoutes

\* handlers.SetupRoutes called by main; main exits when it fails
SetupRoutes ==
    /\ phase = "main"
    /\ LET service == NewFieldService(cfg)
       IN  /\ fields' = service.fields
           /\ relationshipGraph' = service.relationshipGraph
           /\ routes' = registers(service.err)
           /\ phase' = IF service.err # NoError THEN "exited" ELSE "routed"
           /\ last' = [op |-> "SetupRoutes", err |-> service.err]
    /\ UNCHANGED <<cfg, inflight>>

\* r.Run
Run ==
    /\ phase = "routed"
    /\ phase' = "serving"
    /\ UNCHANGED <<fields, relationshipGraph, last, cfg, routes, inflight>>

\* a request arrives and its handler starts
Receive(arrival) ==
    /\ phase = "serving"
    /\ arrival.route \in routes
    /\ arrival \notin inflight
    /\ Cardinality(inflight) < MaxInflight
    /\ inflight' = inflight \cup {arrival}
    /\ UNCHANGED <<fields, relationshipGraph, last, cfg, phase, routes>>

\* the handler of a request in flight runs and the response is sent
GenerateQueryHandlerRun(arrival) ==
    /\ arrival \in inflight
    /\ arrival.route = GenerateQueryRoute
    /\ \E run \in GenerateQueryHandler(fields, relationshipGraph, arrival.input) :
           last' = [op |-> "GenerateQueryHandler", body |-> arrival.input,
                    response |-> run.response, called |-> run.called,
                    request |-> run.request, out |-> run.out]
    /\ inflight' = inflight \ {arrival}
    /\ UNCHANGED <<fields, relationshipGraph, cfg, phase, routes>>

ListFieldsHandlerRun(arrival) ==
    /\ arrival \in inflight
    /\ arrival.route = FieldsRoute
    /\ LET run == ListFieldsHandler(fields, arrival.input)
       IN  last' = [op |-> "ListFieldsHandler", query |-> arrival.input,
                    response |-> run.response, system |-> run.system]
    /\ inflight' = inflight \ {arrival}
    /\ UNCHANGED <<fields, relationshipGraph, cfg, phase, routes>>

HealthRun(arrival) ==
    /\ arrival \in inflight
    /\ arrival.route = HealthRoute
    /\ last' = [op |-> "Health",
                response |-> [status |-> 200, json |-> [status |-> <<"o", "k">>]]]
    /\ inflight' = inflight \ {arrival}
    /\ UNCHANGED <<fields, relationshipGraph, cfg, phase, routes>>

\* FieldService.GetAllFields called on the service
GetAllFieldsCall(system) ==
    /\ phase = "serving"
    /\ last' = [op |-> "GetAllFields", system |-> system,
                result |-> GetAllFields(fields, system)]
    /\ UNCHANGED <<fields, relationshipGraph, cfg, phase, routes, inflight>>

NextServer ==
    \/ SetupRoutes
    \/ Run
    \/ \E arrival \in Arrivals : Receive(arrival)
    \/ \E arrival \in Arrivals : GenerateQueryHandlerRun(arrival)
    \/ \E arrival \in Arrivals : ListFieldsHandlerRun(arrival)
    \/ \E arrival \in Arrivals : HealthRun(arrival)
    \/ \E system \in Systems : GetAllFieldsCall(system)

SpecServer == InitServer /\ [][NextServer]_vars

(***************************************************************************)
(* Vocabulary of the properties of the server.                             *)
(***************************************************************************)
\* the name of a field in a system: its alias in system_a and in system_b,
\* its column name when no system or "default" is given
NameIn(field, system) ==
    IF system = <<"s", "y", "s", "t", "e", "m", "_", "a">> THEN field.SystemAFieldMap
    ELSE IF system = <<"s", "y", "s", "t", "e", "m", "_", "b">> THEN field.SystemBFieldMap
    ELSE field.ColumnName

\* the alias of a field in a named system; no other system has aliases
AliasIn(field, system) ==
    IF system = <<"s", "y", "s", "t", "e", "m", "_", "a">> THEN field.SystemAFieldMap
    ELSE IF system = <<"s", "y", "s", "t", "e", "m", "_", "b">> THEN field.SystemBFieldMap
    ELSE <<>>

\* the entries of the catalog listed for a system, in load order
Listed(system) ==
    IF system \in {<<>>, <<"d", "e", "f", "a", "u", "l", "t">>} THEN fields
    ELSE Without(fields, {i \in DOMAIN fields : AliasIn(fields[i], system) = <<>>})

\* the file the configuration names exists
SourceOpens == cfg.CSVPath \in DOMAIN FileSystem

\* a response of the generate-query endpoint for which GenerateQuery ran
Generated == last.op = "GenerateQueryHandler" /\ last.called

(***************************************************************************)
(* C14: the system of the request selects the names of the fields: in a    *)
(* successful response for system_a every matched field, and its column in *)
(* the query, carries the system_a alias of its catalog entry, for         *)
(* system_b the system_b alias, and the column name when the request names *)
(* no system or "default".                                                 *)
(***************************************************************************)
C14_SystemNames ==
    (Generated /\ last.response.status = 200) =>
        LET system == last.request.System
            matches == last.response.json.MatchedFields
        IN  \A k \in DOMAIN matches :
                \E i \in DOMAIN fields :
                    /\ fields[i].TableName = matches[k].TableName
                    /\ fields[i].Description = matches[k].FieldDescription
                    /\ matches[k].ColumnName = NameIn(fields[i], system)
                    /\ Contains(last.response.json.Query,
                                fields[i].TableName \o <<".">> \o NameIn(fields[i], system))

(***************************************************************************)
(* C15: GenerateQuery matches with the threshold and the maximum of the    *)
(* configuration, which are 30 and 10 when the environment sets none: the  *)
(* matched fields of a request are those FindFieldMatches returns for      *)
(* cfg.MatchThreshold and cfg.MaxMatches.                                  *)
(***************************************************************************)
C15_ConfiguredMatching ==
    /\ DefaultConfig.MatchThreshold = Rat(30, 1)
    /\ DefaultConfig.MaxMatches = 10
    /\ Generated =>
           last.out.matched
               = FindFieldMatches(fields, last.out.keywords,
                                  cfg.MatchThreshold, cfg.MaxMatches).matches

(***************************************************************************)
(* C16: when the source opens, its header has 9 cells and some record has  *)
(* fewer, loading does not fail: the catalog is made of the records with   *)
(* 9 cells, in source order, the short records being skipped; and          *)
(* NewFieldService fails only when the source does not open.               *)
(***************************************************************************)
C16_ShortRecordsSkipped ==
    phase # "main" =>
        /\ phase = "exited" => ~SourceOpens
        /\ ( /\ SourceOpens
             /\ FileSystem[cfg.CSVPath] # <<>>
             /\ Len(FileSystem[cfg.CSVPath][1]) = 9 ) =>
               LET full == SelectSeq(Tail(FileSystem[cfg.CSVPath]),
                                     LAMBDA row : Len(row) >= 9)
               IN  fields = [k \in DOMAIN full |-> fieldOfRow(full[k])]

(***************************************************************************)
(* C17: GetAllFields returns the whole catalog in load order for the empty *)
(* system and for "default", and for any other system the entries with a   *)
(* non-empty alias in that system, in load order; the fields endpoint      *)
(* answers a request without a system parameter as for "default".          *)
(***************************************************************************)
C17_FieldListing ==
    /\ last.op = "GetAllFields" => last.result = Listed(last.system)
    /\ last.op = "ListFieldsHandler" =>
           /\ last.response.status = 200
           /\ "system" \notin DOMAIN last.query =>
                  /\ last.system = <<"d", "e", "f", "a", "u", "l", "t">>
                  /\ last.response.json.fields = fields
           /\ "system" \in DOMAIN last.query =>
                  last.response.json.fields = Listed(last.query.system)

\* a catalog of which system_b lists some entries and not others
C17_Witness ==
    /\ last.op = "GetAllFields"
    /\ last.system = <<"s", "y", "s", "t", "e", "m", "_", "b">>
    /\ last.result # <<>>
    /\ Len(last.result) < Len(fields)
    /\ \E i \in DOMAIN fields : fields[i].SystemAFieldMap = <<>>

(***************************************************************************)
(* C18: a generate-query request without a description, or with an empty   *)
(* one, is answered with status 400 and an "error" field and GenerateQuery *)
(* is not called; for any other request it is called; when it returns an   *)
(* error the response carries the message of the error and nothing else;   *)
(* a request without a system is processed with the system "default".      *)
(***************************************************************************)
C18_Validation ==
    last.op = "GenerateQueryHandler" =>
        LET body == last.body
            noDescription ==
                IF "description" \in DOMAIN body THEN body.description = <<>> ELSE TRUE
        IN  /\ noDescription =>
                   /\ last.response.status = 400
                   /\ DOMAIN last.response.json = {"error"}
                   /\ ~last.called
            /\ ~noDescription =>
                   /\ last.called
                   /\ last.response.status # 400
                   /\ last.request.Description = body.description
            /\ (last.called /\ last.out.err # NoError) =>
                   /\ DOMAIN last.response.json = {"error"}
                   /\ Contains(last.response.json.error, last.out.err[1])
                   /\ last.response.status # 200
            /\ (last.called /\ "system" \notin DOMAIN body) =>
                   last.request.System = <<"d", "e", "f", "a", "u", "l", "t">>
            /\ (last.called /\ "system" \in DOMAIN body) =>
                   last.request.System = body.system

\* a request without a system that fails in GenerateQuery
C18_Witness ==
    /\ Generated
    /\ "system" \notin DOMAIN last.body
    /\ last.out.err # NoError
    /\ last.response.status = 500
    /\ fields # <<>>

\* a step that leaves the catalog and the graph as they are once the routes
\* are registered
ReadOnlyStep ==
    phase \in {"routed", "serving"} =>
        (fields' = fields /\ relationshipGraph' = relationshipGraph)

(***************************************************************************)
(* C19: routes are registered only when NewFieldService succeeded, and     *)
(* then the catalog is the loaded source and the graph is built from it;   *)
(* requests are received and answered only while the server serves; a      *)
(* load failure ends main with no route; and once the routes are           *)
(* registered no step, whatever requests are in flight, changes the        *)
(* catalog or the graph.                                                   *)
(***************************************************************************)
C19_BuiltBeforeServing ==
    /\ [](routes # {} =>
            /\ NewFieldService(cfg).err = NoError
            /\ routes = AllRoutes
            /\ fields = NewFieldService(cfg).fields
            /\ relationshipGraph = buildRelationshipGraph(fields))
    /\ []((inflight # {} \/ last.op \notin {"idle", "SetupRoutes"}) =>
            phase = "serving" /\ routes = AllRoutes)
    /\ [](phase = "exited" => (NewFieldService(cfg).err # NoError /\ routes = {}))
    /\ [][ReadOnlyStep]_vars

\* two requests are in flight after a response to another was sent
C19_Witness ==
    /\ Generated
    /\ last.response.status = 200
    /\ Cardinality(inflight) = 2
    /\ \E a \in inflight : a.route = GenerateQueryRoute
    /\ relationshipGraph # EmptyMap

(***************************************************************************)
(* C20: for every catalog that loads, also one with a record whose table   *)
(* name is empty, and every request, also one with a negative limit,       *)
(* GenerateQuery returns a response or an error and does not panic.        *)
(***************************************************************************)
C20_NoPanic == Generated => ~last.out.panicked
(***************************************************************************)
(* Vocabulary of the confidence of a response.                             *)
(***************************************************************************)
\* the sum of the scores of the first k matches
RECURSIVE ScoreSum(_, _)
ScoreSum(matches, k) ==
    IF k = 0 THEN Rat(0, 1) ELSE RatAdd(ScoreSum(matches, k - 1), matches[k].MatchScore)

\* a = b on scores
RatEq(a, b) == a.num * b.den = b.num * a.den

(***************************************************************************)
(* C21: the confidence of a response with n >= 1 matched fields is the     *)
(* mean of their scores times min(n/3, 1): three times the confidence is   *)
(* the sum of the scores for n < 3 and n times the confidence is the sum   *)
(* for n >= 3; it lies in [0, 100], never exceeds the mean, equals the     *)
(* mean for n >= 3 and is positive when every score is positive.           *)
(***************************************************************************)
C21_Confidence ==
    (Succeeded /\ last.response.MatchedFields # <<>>) =>
        LET matches == last.response.MatchedFields
            n == Len(matches)
            sum == ScoreSum(matches, n)
            mean == Rat(sum.num, sum.den * n)
            confidence == last.response.Confidence
        IN  /\ n < 3 => RatEq(RatMul(confidence, Rat(3, 1)), sum)
            /\ n >= 3 => RatEq(confidence, mean)
            /\ GEq(confidence, Rat(0, 1)) /\ GEq(Rat(100, 1), confidence)
            /\ GEq(mean, confidence)
            /\ (\A k \in 1..n : RatLess(Rat(0, 1), matches[k].MatchScore))
                   => RatLess(Rat(0, 1), confidence)

\* two matches of score 100 give the confidence 200/3
C21_Witness ==
    /\ Succeeded
    /\ Len(last.response.MatchedFields) = 2
    /\ last.response.Confidence = Rat(200, 3)

(***************************************************************************)
(* C22: in every state after construction the relationship graph is        *)
(* symmetric: table B is a neighbour of table A exactly when A is a        *)
(* neighbour of B, the two edges carry the same condition with From and To *)
(* exchanged, and every table that is the owner or the foreign table of a  *)
(* foreign-key declaration is a node.                                      *)
(***************************************************************************)
C22_Symmetric ==
    /\ \A a \in DOMAIN relationshipGraph : \A b \in DOMAIN relationshipGraph[a] :
           /\ b \in DOMAIN relationshipGraph
           /\ a \in DOMAIN relationshipGraph[b]
           /\ relationshipGraph[a][b].Condition = relationshipGraph[b][a].Condition
           /\ relationshipGraph[a][b].From = a /\ relationshipGraph[a][b].To = b
           /\ relationshipGraph[b][a].From = b /\ relationshipGraph[b][a].To = a
    /\ \A i \in DOMAIN fields :
           Declares(i) =>
               /\ fields[i].TableName \in DOMAIN relationshipGraph
               /\ fields[i].ForeignTable \in DOMAIN relationshipGraph

\* the edge from the foreign table back to the owner of the declaration
C22_Witness ==
    /\ \E i \in DOMAIN fields :
           Declares(i) /\ fields[i].TableName = orders /\ fields[i].ForeignTable = users
    /\ users \in DOMAIN relationshipGraph
    /\ orders \in DOMAIN relationshipGraph[users]
    /\ relationshipGraph[users][orders].From = users
    /\ relationshipGraph[users][orders].Condition = <<"o", "r", "d", "e", "r", "s", ".", "u", "s", "e", "r", "_", "i", "d", " ", "=", " ", "u", "s", "e", "r", "s", ".", "u", "s", "e", "r", "_", "i", "d">>
    /\ relationshipGraph[orders][users].Condition = <<"o", "r", "d", "e", "r", "s", ".", "u", "s", "e", "r", "_", "i", "d", " ", "=", " ", "u", "s", "e", "r", "s", ".", "u", "s", "e", "r", "_", "i", "d">>
    /\ last.op = "FindJoinPath" /\ last.fromTable = users /\ last.toTable = orders
    /\ last.joins = <<relationshipGraph[users][orders]>>

(***************************************************************************)
(* C23: when several declarations relate the same two tables, in either    *)
(* orientation, the graph holds one edge per direction between them and    *)
(* both carry the condition of the declaration that comes last in the      *)
(* catalog.                                                                *)
(***************************************************************************)
LastRelating(a, b) ==
    CHOOSE i \in DOMAIN fields :
        Relates(i, a, b) /\ \A j \in DOMAIN fields : Relates(j, a, b) => j <= i

C23_LastDeclarationWins ==
    \A n \in {i \in DOMAIN fields : Declares(i)} :
        LET a == fields[n].TableName
            b == fields[n].ForeignTable
        IN  Cardinality({i \in DOMAIN fields : Relates(i, a, b)}) >= 2 =>
            LET d == fields[LastRelating(a, b)]
                condition == d.TableName \o <<".">> \o d.ColumnName \o <<" ", "=", " ">>
                                 \o d.ForeignTable \o <<".">> \o d.ForeignKey
            IN  /\ a \in DOMAIN relationshipGraph
                /\ b \in DOMAIN relationshipGraph[a]
                /\ relationshipGraph[a][b] = [From |-> a, To |-> b, Condition |-> condition]
                /\ relationshipGraph[b][a] = [From |-> b, To |-> a, Condition |-> condition]

\* orders.user_id -> users comes after users.last_order -> orders
C23_Witness ==
    /\ \E i, j \in DOMAIN fields :
           /\ i < j
           /\ fields[i] = DeclPool[5] /\ fields[j] = DeclPool[1]
    /\ relationshipGraph[users][orders].Condition = <<"o", "r", "d", "e", "r", "s", ".", "u", "s", "e", "r", "_", "i", "d", " ", "=", " ", "u", "s", "e", "r", "s", ".", "u", "s", "e", "r", "_", "i", "d">>
    /\ relationshipGraph[orders][users].Condition = <<"o", "r", "d", "e", "r", "s", ".", "u", "s", "e", "r", "_", "i", "d", " ", "=", " ", "u", "s", "e", "r", "s", ".", "u", "s", "e", "r", "_", "i", "d">>
    /\ last.op = "FindJoinPath" /\ last.fromTable = orders /\ last.toTable = users
    /\ last.joins = <<relationshipGraph[orders][users]>>

(***************************************************************************)
(* Vocabulary of the joins of a response.                                  *)
(***************************************************************************)
\* the condition the i-th entry of the catalog declares
DeclaredCondition(i) ==
    fields[i].TableName \o <<".">> \o fields[i].ColumnName \o <<" ", "=", " ">>
        \o fields[i].ForeignTable \o <<".">> \o fields[i].ForeignKey

\* the edge joins the two tables, in either direction
Between(join, a, b) == a # b /\ {join.From, join.To} = {a, b}

\* two declarations relate the two tables with different conditions
Rivals(a, b) ==
    \E i, j \in DOMAIN fields :
        /\ Relates(i, a, b) /\ Relates(j, a, b)
        /\ DeclaredCondition(i) # DeclaredCondition(j)

\* the edges of the response between the two tables
EdgesBetween(a, b) ==
    {k \in DOMAIN last.response.JoinsUsed : Between(last.response.JoinsUsed[k], a, b)}

(***************************************************************************)
(* C24 as stated: when two declarations give different conditions for the  *)
(* same two tables, the joins of a successful query that connects the two   *)
(* tables hold an edge for each of the conditions.                          *)
(***************************************************************************)
C24_BothConditions ==
    Succeeded =>
        \A n \in DOMAIN last.response.JoinsUsed :
            LET a == last.response.JoinsUsed[n].From
                b == last.response.JoinsUsed[n].To
            IN  Rivals(a, b) =>
                    \A i \in DOMAIN fields :
                        Relates(i, a, b) =>
                            \E k \in EdgesBetween(a, b) :
                                last.response.JoinsUsed[k].Condition = DeclaredCondition(i)

(***************************************************************************)
(* C24 amended: when two declarations give different conditions for the    *)
(* same two tables, the joins of a successful query that connects the two   *)
(* tables hold exactly one edge between them, and it carries the condition  *)
(* of the declaration that comes last in the catalog.                       *)
(***************************************************************************)
C24_LaterConditionOnly ==
    Succeeded =>
        \A n \in DOMAIN last.response.JoinsUsed :
            LET a == last.response.JoinsUsed[n].From
                b == last.response.JoinsUsed[n].To
            IN  Rivals(a, b) =>
                    /\ EdgesBetween(a, b) = {n}
                    /\ last.response.JoinsUsed[n].Condition
                           = DeclaredCondition(LastRelating(a, b))

\* users and orders, related by orders.user_id and then by users.last_order
C24_Witness ==
    /\ Succeeded
    /\ Rivals(users, orders)
    /\ Len(last.response.JoinsUsed) >= 3
    /\ \E k \in EdgesBetween(users, orders) :
           last.response.JoinsUsed[k].Condition = <<"u", "s", "e", "r", "s", ".", "l", "a", "s", "t", "_", "o", "r", "d", "e", "r", " ", "=", " ", "o", "r", "d", "e", "r", "s", ".", "o", "r", "d", "e", "r", "_", "i", "d">>

(***************************************************************************)
(* Vocabulary of the order of the joins.                                   *)
(***************************************************************************)
\* the m-th smallest index of a set of indices
Nth(indices, m) ==
    CHOOSE k \in indices : Cardinality({j \in indices : j < k}) = m - 1

\* the entries of a sequence at the indices, in their order
Selected(seq, indices) ==
    [m \in 1..Cardinality(indices) |-> seq[Nth(indices, m)]]

\* the joins that are the first with their condition
FirstWithCondition(joins) ==
    {i \in DOMAIN joins : \A j \in 1..(i - 1) : joins[j].Condition # joins[i].Condition}

(***************************************************************************)
(* C25: deduplication keeps, for each condition, the first edge collected  *)
(* and drops the later ones, and the edges kept stay in the order in which *)
(* the FindJoinPath calls produced them.                                   *)
(***************************************************************************)
C25_FirstKeptInOrder ==
    Succeeded =>
        last.response.JoinsUsed
            = Selected(last.built.collected, FirstWithCondition(last.built.collected))

(***************************************************************************)
(* Vocabulary of the JOIN clauses of a generated query.                    *)
(***************************************************************************)
\* the tables the catalog names
CatalogTables ==
    {fields[i].TableName : i \in DOMAIN fields}
        \cup {fields[i].ForeignTable : i \in {j \in DOMAIN fields : Declares(j)}}

\* the clause names a column of the table in its ON condition
Mentions(clause, table) == Contains(clause, <<" ">> \o table \o <<".">>)

\* FROM or one of the first m JOIN clauses introduces the table
IntroducedBy(table, m) ==
    \/ FromIs(table)
    \/ \E j \in 1..m : StartsWith(last.built.joinClauses[j], <<"J", "O", "I", "N", " ">> \o table \o <<" ">>)

(***************************************************************************)
(* C29: in every generated query the ON condition of each JOIN clause      *)
(* mentions only the table the clause joins and tables that FROM or an     *)
(* earlier JOIN clause introduced, so that the clauses of a join path that *)
(* starts at the primary table appear in the order of the path.            *)
(***************************************************************************)
C29_JoinsInPathOrder ==
    Succeeded =>
        \A m \in DOMAIN last.built.joinClauses : \A t \in CatalogTables :
            Mentions(last.built.joinClauses[m], t) => IntroducedBy(t, m)

(***************************************************************************)
(* Vocabulary of the score of a field.                                     *)
(***************************************************************************)
\* the keyword occurs in the description, whatever the case of the letters
OccursIn(description, keyword) ==
    \E i \in 0..(Len(description) - Len(keyword)) :
        \A j \in 1..Len(keyword) :
            ToLowerChar(description[i + j]) = ToLowerChar(keyword[j])

\* the number of entries of the keyword list that occur in the description
RECURSIVE Hits(_, _)
Hits(description, keywords) ==
    IF keywords = <<>> THEN 0
    ELSE (IF OccursIn(description, Head(keywords)) THEN 1 ELSE 0)
             + Hits(description, Tail(keywords))

\* the score of a match is 100 * hits / entries for the keywords, 0 for none
ScoredBy(match, keywords) ==
    /\ keywords # <<>> =>
           match.MatchScore.num * Len(keywords)
               = 100 * Hits(match.FieldDescription, keywords) * match.MatchScore.den
    /\ keywords = <<>> => match.MatchScore = Rat(0, 1)
    /\ GEq(match.MatchScore, Rat(0, 1)) /\ GEq(Rat(100, 1), match.MatchScore)

(***************************************************************************)
(* C28: for a non-empty keyword list the score of every field returned is  *)
(* 100 times the number of keyword entries, duplicates counted one by one, *)
(* that occur in its description whatever the case, divided by the number  *)
(* of entries, and lies in [0, 100]; for an empty keyword list the score   *)
(* is 0 and no field is returned for a threshold above 0.                  *)
(***************************************************************************)
C28_MatchScore ==
    /\ (last.op = "FindFieldMatches" /\ ~last.panicked) =>
           /\ \A k \in DOMAIN last.matches : ScoredBy(last.matches[k], last.keywords)
           /\ (last.keywords = <<>> /\ RatLess(Rat(0, 1), last.threshold))
                  => last.matches = <<>>
    /\ last.op = "GenerateQuery" =>
           \A k \in DOMAIN last.matched : ScoredBy(last.matched[k], last.keywords)

\* the keyword user twice: both entries count for "User email address"
C28_Witness ==
    /\ last.op = "FindFieldMatches"
    /\ last.keywords = <<<<"u", "s", "e", "r">>, <<"u", "s", "e", "r">>>>
    /\ \E k \in DOMAIN last.matches :
           /\ last.matches[k].FieldDescription = <<"U", "s", "e", "r", " ", "e", "m", "a", "i", "l", " ", "a", "d", "d", "r", "e", "s", "s">>
           /\ last.matches[k].MatchScore = Rat(100, 1)

(***************************************************************************)
(* Join planning on catalogs whose graph has a cycle or a table name with  *)
(* an upper-case first letter.                                             *)
(***************************************************************************)
Customers == <<"C", "u", "s", "t", "o", "m", "e", "r", "s">>

\* the README catalog with products.owner_id -> users, which closes the cycle
\* users - orders - order_items - products, a label of orders, and payments
\* as a neighbour of products: products is two edges from orders both through
\* order_items and through users
CycleCatalog ==
    ReadmeCatalog \o <<
        DeclPool[4],
        Field(<<"l", "a", "b", "e", "l">>, orders, <<"l", "a", "b", "e", "l">>, <<"o", "r", "d", "e", "r", "_", "l", "a", "b", "e", "l">>,
              <<"O", "r", "d", "e", "r", " ", "d", "i", "s", "p", "l", "a", "y", " ", "l", "a", "b", "e", "l">>, <<"V", "A", "R", "C", "H", "A", "R">>, <<>>, <<>>, <<>>),
        Field(<<"p", "r", "o", "d", "u", "c", "t", "_", "i", "d">>, payments, <<"p", "r", "o", "d">>, <<"p", "a", "i", "d", "_", "p", "r", "o", "d", "u", "c", "t">>,
              <<"P", "a", "i", "d", " ", "p", "r", "o", "d", "u", "c", "t", " ", "n", "a", "m", "e">>, <<"I", "N", "T", "E", "G", "E", "R">>, <<"p", "r", "o", "d", "u", "c", "t", "_", "i", "d">>, products,
              <<"p", "r", "o", "d", "u", "c", "t", "_", "i", "d">>) >>

\* the README catalog with a table whose name begins with an upper-case letter
CapitalCatalog ==
    ReadmeCatalog \o <<
        Field(<<"f", "a", "v", "o", "r", "i", "t", "e">>, Customers, <<"f", "a", "v">>, <<"f", "a", "v", "o", "r", "i", "t", "e", "_", "p", "r", "o", "d", "u", "c", "t">>,
              <<"F", "a", "v", "o", "r", "i", "t", "e", " ", "p", "r", "o", "d", "u", "c", "t", " ", "n", "a", "m", "e">>, <<"I", "N", "T", "E", "G", "E", "R">>, <<"f", "a", "v", "o", "r", "i", "t", "e">>, products,
              <<"p", "r", "o", "d", "u", "c", "t", "_", "i", "d">>) >>

PlanCatalogs == {CycleCatalog, CapitalCatalog}

PlanRequests ==
    {[Description |-> d, System |-> <<"d", "e", "f", "a", "u", "l", "t">>, Limit |-> l]
        : d \in {<<"d", "i", "s", "p", "l", "a", "y", "-", "n", "a", "m", "e">>, <<"C", "o", "u", "n", "t", " ", "d", "i", "s", "p", "l", "a", "y", "-", "n", "a", "m", "e">>}, l \in {0, 25}}

InitPlan ==
    /\ fields \in PlanCatalogs
    /\ relationshipGraph = buildRelationshipGraph(fields)
    /\ last = Idle
    /\ Serving

NextPlan ==
    \/ \E request \in PlanRequests : GenerateQueryCall(request)
    \/ Return

SpecPlan == InitPlan /\ [][NextPlan]_vars

(***************************************************************************)
(* C26: the JOIN clauses are emitted in the order of the deduplicated      *)
(* edges, as "JOIN <To> <alias> ON <Condition>", leaving out every edge    *)
(* whose To table FROM or an earlier JOIN clause already introduced: the   *)
(* clauses are those of the edges that are the first to reach a table      *)
(* other than the primary one, so that no table is introduced twice and no *)
(* JOIN clause introduces the primary table.                               *)
(***************************************************************************)
\* the edges that are the first to reach their To table, the primary aside
FirstToReach(joins, primary) ==
    {k \in DOMAIN joins :
        /\ joins[k].To # primary
        /\ \A j \in 1..(k - 1) : joins[j].To # joins[k].To}

\* the one-letter aliases of a table, whatever the case of the letter
Aliases(table) == {SubSeq(table, 1, 1), ToLower(SubSeq(table, 1, 1))}

C26_JoinClauses ==
    Succeeded =>
        LET joins == last.response.JoinsUsed
            primary == last.built.tableNames[1]
            edges == Selected(joins, FirstToReach(joins, primary))
            clauses == last.built.joinClauses
        IN  /\ Len(clauses) = Len(edges)
            /\ \A m \in DOMAIN clauses :
                   \E a \in Aliases(edges[m].To) :
                       clauses[m] = <<"J", "O", "I", "N", " ">> \o edges[m].To \o <<" ">> \o a
                                        \o <<" ", "O", "N", " ">> \o edges[m].Condition
            /\ \A t \in CatalogTables : Cardinality(JoinsOf(t)) <= 1
            /\ JoinsOf(primary) = {}

\* the second edge that reaches products is left out
C26_Witness ==
    /\ Succeeded
    /\ Len(last.response.JoinsUsed) = 5
    /\ Len(last.built.joinClauses) = 4
    /\ \E j, k \in DOMAIN last.response.JoinsUsed :
           /\ j < k
           /\ last.response.JoinsUsed[j].To = products
           /\ last.response.JoinsUsed[k].To = products
           /\ JoinsOf(products)
                  = {m \in DOMAIN last.built.joinClauses :
                        Contains(last.built.joinClauses[m],
                                 last.response.JoinsUsed[j].Condition)}

(***************************************************************************)
(* C27: the alias of the primary table and of every joined table is the    *)
(* first character of the lower-cased table name, also for a table name    *)
(* that begins with an upper-case letter.                                  *)
(***************************************************************************)
LowerAlias(table) == SubSeq(ToLower(table), 1, 1)

C27_LowerCasedAlias ==
    Succeeded =>
        /\ last.built.fromClause
               = last.built.tableNames[1] \o <<" ">> \o LowerAlias(last.built.tableNames[1])
        /\ \A t \in CatalogTables : \A m \in JoinsOf(t) :
               StartsWith(last.built.joinClauses[m],
                          <<"J", "O", "I", "N", " ">> \o t \o <<" ">> \o LowerAlias(t) \o <<" ", "O", "N", " ">>)

(***************************************************************************)
(* C30: in every successful query over several tables the edges of         *)
(* joinsUsed and the JOIN clauses correspond one to one: there are as many *)
(* JOIN clauses as edges and the condition of every edge is the ON         *)
(* condition of a JOIN clause, also when the graph has a cycle.            *)
(***************************************************************************)
EndsWith(s, suffix) ==
    Len(suffix) <= Len(s) /\ SubSeq(s, Len(s) - Len(suffix) + 1, Len(s)) = suffix

C30_JoinsUsedAreJoined ==
    (Succeeded /\ Cardinality(MatchedTables) >= 2) =>
        /\ Len(last.built.joinClauses) = Len(last.response.JoinsUsed)
        /\ \A k \in DOMAIN last.response.JoinsUsed :
               \E m \in DOMAIN last.built.joinClauses :
                   EndsWith(last.built.joinClauses[m],
                            <<" ", "O", "N", " ">> \o last.response.JoinsUsed[k].Condition)

====
